---------------------------- MODULE Spec2Model ----------------------------
(***************************************************************************)
(* Botline: the message bus (buffer, middleware chain, emission), the      *)
(* built-in middleware, the message router, the command handler, the agent *)
(* communicator, the heartbeat scheduler, the agent registry and the       *)
(* POST /notify, POST /reply and POST /agents/register endpoints, as state *)
(* machines translated from the JavaScript sources.                        *)
(*                                                                         *)
(* JavaScript values are modelled as follows.  A string that the code only *)
(* compares is a TLA+ string; Undefined stands for an absent field and ""  *)
(* for the empty string (both falsy).  A chat message, which the code      *)
(* inspects character by character, is a record                            *)
(*   [str |-> it is a string, text |-> its first characters,               *)
(*    fill |-> how many further filler characters "x" follow]              *)
(* so that a message longer than the validation limit is representable.    *)
(***************************************************************************)
EXTENDS Integers, Sequences, FiniteSets, TLC

VARIABLES
  \* MessageBus (src/src/core/messageBus.js)
  middleware,      \* this.middleware: sequence of [id, kind], in chain order
  messageBuffer,   \* this.messageBuffer: sequence of [id, event]
  registered,      \* number of use() calls so far (the next middleware's id - 1)
  published,       \* number of publish() calls so far (the last entry's id)
  sinceClear,      \* number of publish() calls since the last clearBuffer()
  pc,              \* position of the publish call in flight
  pubEvent,        \* its event
  pubMsg,          \* its message
  pubCtx,          \* its context object (mutable during the chain)
  index,           \* executeMiddleware's local `index`
  stack,           \* chain positions of the middleware invocations not yet returned
  topState,        \* "run": the newest invocation has not decided yet;
                   \* "resume": its `await next()` has a result to resume with
  trace,           \* what the publish in flight did so far, in order
  raised,          \* the error a middleware threw in this publish
  errorEvent,      \* the error broadcast on the 'error' channel by this publish
  thrown,          \* the error this publish threw to its caller
  \* middleware.js module state and its collaborators
  rateLimits,      \* the rateLimits Map: key -> [count, resetAt]
  agents,          \* agentRegistry.agents: name -> record
  now,             \* Date.now()
  rateLog,         \* per rate-limit key, when its messages reached the limiter
  span,            \* the instant at which the observed time span began (NoSpan: none)
  inSpan,          \* per rate-limit key, how many of its messages the limiter
                   \* accepted within one window length from `span`
  \* MessageRouter (src/src/core/router.js) and CommandHandler
  platformAdapters, \* names of the registered platform adapters
  agentAdapters,   \* names of the registered agent adapters
  defaultAgent,    \* this.defaultAgent
  commands,        \* names in commandHandler.commands
  rpc,             \* position of the routeMessage call in flight
  rPlatform,       \* its platformName
  rMsg,            \* its message
  rCtx,            \* its context object (the caller's)
  rAgent,          \* its resolved agentName
  rResponse,       \* the response it holds
  rResult,         \* what it returned
  rError,          \* what it threw
  rtrace,          \* the collaborators it called so far, in order
  routes,          \* number of routeMessage calls so far
  \* AgentCommunicator (src/unnamed/part_004)
  cpc,             \* position of the communicator call in flight
  cMethod,         \* the method the caller called
  cBackoff,        \* whether its loop is sendWithBackoff's
  cHeader,         \* the X-Agent-Secret header its requests carry
  cOption,         \* options.retries (options.maxRetries) as passed by the caller
  retries,         \* sendToAgent's local `retries`
  attempt,         \* sendToAgent's loop variable
  posts,           \* number of axios.post calls made by this call
  waits,           \* the delays this call awaited, in order
  cError,          \* the attempt count named by the error it threw (0: none)
  \* CreditTimerKeeper (src/src/core/scheduler.js)
  enabled,         \* this.enabled
  timer,           \* this.timer: a handle, or NoTimer
  nextHeartbeat,   \* this.nextHeartbeat: the time left until that date, or NoDate
  isPaused,        \* this.isPaused
  pauseTimer,      \* this.pauseTimer: a handle, or NoTimer
  sendMessageCallback, \* this.sendMessageCallback
  armed,           \* the pending timeouts: [id, kind, delay left]
  inFlight,        \* number of heartbeat timer callbacks awaiting sendHeartbeat()
  payload,         \* the argument of the last sendMessageCallback invocation
  unhandled,       \* the error a timer callback rejected with
  schedError,      \* the error the last scheduler call threw
  op,              \* the last scheduler operation or timer event
  opPhase,         \* the phase in which it took place
  \* AgentRegistry persistence (src/src/core/agentRegistry.js)
  store,           \* the registry file: [exists, data (the object last written)]
  loaded,          \* this.loaded
  regCalls,        \* the mutating calls that reached save(), in call order:
                   \* [method, name, data written, status, completion number]
  issued,          \* number of calls that reached save(), over all restarts
  completions,     \* number of writes completed so far
  serial,          \* no call so far was made while another's write was under way
  regError,        \* the error the last registry call threw
  restarts,        \* number of process restarts so far
  atExit,          \* the records in memory when the process last exited
  exitClean,       \* whether that exit followed serial, successful calls
  \* calls made on the components from outside
  checked,         \* the last call of a registry predicate: [fn, name, arg, result]
  exec,            \* the last commandHandler.execute call: [pc, command, known,
                   \* handlerError, result, error]
  recent,          \* the last getRecentMessages call: [called, count, messages,
                   \* buffer (this.messageBuffer at the call)]
  http,            \* the POST /notify request being served, or the last one served:
                   \* [pc, status, error, from, message, ip, secret, call (the
                   \* index of its updateLastSeen in regCalls), n (requests so far)]
  broadcasts,      \* number of platform.broadcastMessage calls that succeeded
  endpoint         \* the POST /reply or POST /agents/register request being
                   \* served, or the last one served: [route, pc, status, error,
                   \* name (body.to or body.name), secret (body.secret), call
                   \* (the index of its register in regCalls), n (requests so far)]

busVars == <<middleware, messageBuffer, registered, published, sinceClear, pc,
             pubEvent, pubMsg, pubCtx, index, stack, topState, trace, raised,
             errorEvent, thrown>>
envVars == <<rateLimits, agents, now, rateLog, span, inSpan>>
routerVars == <<platformAdapters, agentAdapters, defaultAgent, commands, rpc,
                rPlatform, rMsg, rCtx, rAgent, rResponse, rResult, rError,
                rtrace, routes>>
commVars == <<cpc, cMethod, cBackoff, cHeader, cOption, retries, attempt, posts, waits, cError>>
schedVars == <<enabled, timer, nextHeartbeat, isPaused, pauseTimer, sendMessageCallback,
               armed, inFlight, payload, unhandled, schedError, op, opPhase>>
regVars == <<store, loaded, regCalls, issued, completions, serial, regError, restarts, atExit,
             exitClean>>
appVars == <<checked, exec, recent, http, broadcasts, endpoint>>
outsideBus == <<routerVars, commVars, schedVars, regVars, appVars>>
vars == <<busVars, envVars, routerVars, commVars, schedVars, regVars, appVars>>

-----------------------------------------------------------------------------
(* JavaScript values *)

Undefined == "undefined"

\* what `config.secret || null` stores for an agent without a secret
Null == "null"

Truthy(v) == v # Undefined /\ v # Null /\ v # ""

NoError == "no error"

\* a || b on strings
Or(a, b) == IF Truthy(a) THEN a ELSE b

Min(a, b) == IF a <= b THEN a ELSE b

\* Array.prototype.slice(from) on a sequence, from counted from 0
SliceFrom(s, from) == SubSeq(s, from + 1, Len(s))

Str(chars) == [str |-> TRUE, text |-> chars, fill |-> 0]

Length(message) == Len(message.text) + message.fill

EmptyMap == [k \in {} |-> 0]

\* a JavaScript number: NaN, or the integer n
NaN == [nan |-> TRUE, value |-> 0]

Num(n) == [nan |-> FALSE, value |-> n]

EmptyContext ==
  [platform |-> Undefined, user |-> Undefined, from |-> Undefined,
   type |-> Undefined, secret |-> Undefined, ip |-> Undefined,
   agent |-> Undefined, isCommand |-> FALSE, command |-> <<>>, args |-> <<>>]

-----------------------------------------------------------------------------
(* MessageBus *)

maxBufferSize == 100

\* an addToBuffer that never evicts
addToBufferUnbounded(buffer, entry) == Append(buffer, entry)

\* an addToBuffer that evicts one entry too early
addToBufferEarly(buffer, entry) ==
  LET pushed == Append(buffer, entry)
  IN  IF Len(pushed) >= maxBufferSize THEN Tail(pushed) ELSE pushed

\* addToBuffer(entry): push, then shift once when over the maximum
addToBuffer(buffer, entry) ==
  LET pushed == Append(buffer, entry)
  IN  IF Len(pushed) > maxBufferSize THEN Tail(pushed) ELSE pushed

\* a use() that puts the new middleware in front of the chain (unshift)
pushMiddlewareFront(chain, fn) == <<fn>> \o chain

\* the list after this.middleware.push(middlewareFn)
pushMiddleware(chain, fn) == Append(chain, fn)

\* use(middlewareFn)
use(kind) ==
  /\ middleware' = pushMiddleware(middleware, [id |-> registered + 1, kind |-> kind])
  /\ registered' = registered + 1
  /\ UNCHANGED <<messageBuffer, published, sinceClear, pc, pubEvent, pubMsg,
                 pubCtx, index, stack, topState, trace, raised, errorEvent,
                 thrown>>
  /\ UNCHANGED envVars
  /\ UNCHANGED outsideBus

\* clearBuffer()
clearBuffer ==
  /\ messageBuffer' = <<>>
  /\ sinceClear' = 0
  /\ UNCHANGED <<middleware, registered, published, pc, pubEvent, pubMsg,
                 pubCtx, index, stack, topState, trace, raised, errorEvent,
                 thrown>>
  /\ UNCHANGED envVars
  /\ UNCHANGED outsideBus


-----------------------------------------------------------------------------
(* Strings as character sequences *)

UpperLetters ==
  <<"A","B","C","D","E","F","G","H","I","J","K","L","M",
    "N","O","P","Q","R","S","T","U","V","W","X","Y","Z">>

LowerLetters ==
  <<"a","b","c","d","e","f","g","h","i","j","k","l","m",
    "n","o","p","q","r","s","t","u","v","w","x","y","z">>

\* String.prototype.toLowerCase, one character
lowerChar(c) ==
  IF \E i \in 1..26 : UpperLetters[i] = c
    THEN LowerLetters[CHOOSE i \in 1..26 : UpperLetters[i] = c]
    ELSE c

toLowerCase(chars) == [i \in 1..Len(chars) |-> lowerChar(chars[i])]

\* all the characters of a string message
Chars(message) == message.text \o [i \in 1..message.fill |-> "x"]

\* String.prototype.split(sep) for a one-character separator
RECURSIVE split(_, _)
split(chars, sep) ==
  IF \A i \in 1..Len(chars) : chars[i] # sep
    THEN <<chars>>
    ELSE LET i == CHOOSE k \in 1..Len(chars) :
                    /\ chars[k] = sep
                    /\ \A j \in 1..(k - 1) : chars[j] # sep
         IN  <<SubSeq(chars, 1, i - 1)>> \o split(SubSeq(chars, i + 1, Len(chars)), sep)

\* String.prototype.startsWith(c) for a one-character prefix
startsWith(message, c) == Length(message) > 0 /\ Chars(message)[1] = c

-----------------------------------------------------------------------------
(* AgentRegistry security predicates (src/src/core/agentRegistry.js) *)

hasAgent(name) == name \in DOMAIN agents

\* a verifySecret that also lets every caller without a secret pass
verifySecretWhenSupplied(name, secret) ==
  IF name \notin DOMAIN agents THEN FALSE
  ELSE IF ~Truthy(agents[name].secret) THEN TRUE
  ELSE ~Truthy(secret) \/ agents[name].secret = secret

verifySecret(name, secret) ==
  IF name \notin DOMAIN agents THEN FALSE
  ELSE IF ~Truthy(agents[name].secret) THEN TRUE
  ELSE agents[name].secret = secret

\* a normalization that knows only the short loopback form
normalizeIPShort(ip) == IF ip = "::1" THEN "127.0.0.1" ELSE ip

normalizeIP(ip) == IF ip = "::1" \/ ip = "::ffff:127.0.0.1" THEN "127.0.0.1" ELSE ip

isIPAllowed(name, ip) ==
  IF name \notin DOMAIN agents THEN FALSE
  ELSE IF agents[name].allowedIPs = {} THEN TRUE
  ELSE normalizeIP(ip) \in agents[name].allowedIPs

-----------------------------------------------------------------------------
(* Built-in middleware (src/src/core/middleware.js).  The body of a        *)
(* middleware up to its `await next()` is                                  *)
(*   [act |-> "proceed" | "throw" | "stop", error, ctx, limits]            *)
(* where ctx and limits are the context and the rateLimits map it leaves.  *)

RATE_LIMIT_WINDOW == 60000

MAX_MESSAGES_PER_WINDOW == 30

MAX_MESSAGE_LENGTH == 10000

Proceed(context, limits) ==
  [act |-> "proceed", error |-> NoError, ctx |-> context, limits |-> limits]

Throw(error, context, limits) ==
  [act |-> "throw", error |-> error, ctx |-> context, limits |-> limits]

Return(context, limits) ==
  [act |-> "stop", error |-> NoError, ctx |-> context, limits |-> limits]

validationMiddleware(message, context, limits) ==
  IF ~message.str \/ Length(message) = 0
    THEN Throw("Invalid message format", context, limits)
  ELSE IF Length(message) > MAX_MESSAGE_LENGTH
    THEN Throw("Message too long (max 10000 characters)", context, limits)
  ELSE Proceed(context, limits)

loggingMiddleware(message, context, limits) ==
  IF ~message.str
    THEN Throw("TypeError: message.substring is not a function", context, limits)
    ELSE Proceed(context, limits)

commandDetectionMiddleware(message, context, limits) ==
  IF ~message.str
    THEN Throw("TypeError: message.startsWith is not a function", context, limits)
  ELSE IF startsWith(message, "/")
    THEN LET parts == split(Chars(message), " ")
         IN  Proceed([context EXCEPT
                        !.isCommand = TRUE,
                        !.command = toLowerCase(SliceFrom(parts[1], 1)),
                        !.args = SliceFrom(parts, 1)],
                     limits)
  ELSE Proceed(context, limits)

accessControlMiddleware(message, context, limits) ==
  IF Truthy(context.from) /\ context.type = "agent"
    THEN IF ~hasAgent(context.from)
           THEN Throw("Agent is not registered", context, limits)
         ELSE IF Truthy(context.secret) /\ ~verifySecret(context.from, context.secret)
           THEN Throw("Invalid agent secret", context, limits)
         ELSE IF Truthy(context.ip) /\ ~isIPAllowed(context.from, context.ip)
           THEN Throw("IP address not allowed", context, limits)
         ELSE Proceed(context, limits)
    ELSE Proceed(context, limits)

userFilterMiddleware(message, context, limits) == Proceed(context, limits)

\* a key that ignores the sender
rateLimitKeyShared(context) == "unknown"

rateLimitKey(context) == Or(context.user, Or(context.from, Or(context.ip, "unknown")))

\* limits with limits[key] set to entry (Map.set, or the mutation of the entry)
setLimit(limits, key, entry) ==
  [k \in DOMAIN limits \cup {key} |-> IF k = key THEN entry ELSE limits[k]]

\* a rate limiter that already rejects the message that reaches the cap
rateLimitMiddlewareAtCap(message, context, limits) ==
  LET key == rateLimitKey(context)
  IN  IF key \notin DOMAIN limits
        THEN Proceed(context,
                     setLimit(limits, key, [count |-> 1, resetAt |-> now + RATE_LIMIT_WINDOW]))
      ELSE IF now > limits[key].resetAt
        THEN Proceed(context,
                     setLimit(limits, key, [count |-> 1, resetAt |-> now + RATE_LIMIT_WINDOW]))
      ELSE LET counted == setLimit(limits, key,
                                   [limits[key] EXCEPT !.count = limits[key].count + 1])
           IN  IF counted[key].count >= MAX_MESSAGES_PER_WINDOW
                 THEN Throw("Rate limit exceeded. Please slow down.", context, counted)
                 ELSE Proceed(context, counted)

rateLimitMiddleware(message, context, limits) ==
  LET key == rateLimitKey(context)
  IN  IF key \notin DOMAIN limits
        THEN Proceed(context,
                     setLimit(limits, key, [count |-> 1, resetAt |-> now + RATE_LIMIT_WINDOW]))
      ELSE IF now > limits[key].resetAt
        THEN Proceed(context,
                     setLimit(limits, key, [count |-> 1, resetAt |-> now + RATE_LIMIT_WINDOW]))
      ELSE LET counted == setLimit(limits, key,
                                   [limits[key] EXCEPT !.count = limits[key].count + 1])
           IN  IF counted[key].count > MAX_MESSAGES_PER_WINDOW
                 THEN Throw("Rate limit exceeded. Please slow down.", context, counted)
                 ELSE Proceed(context, counted)

\* the record of arrivals at the rate limiter: for each key the time of its
\* first message, how many of its messages arrived no later than one window
\* after that one (n), and how many arrived later (after, counted up to 2)
observe(log, kind, context) ==
  LET key == rateLimitKey(context)
  IN  IF kind # "rateLimit" THEN log
      ELSE IF key \notin DOMAIN log
        THEN setLimit(log, key, [first |-> now, n |-> 1, after |-> 0])
      ELSE IF log[key].after = 0 /\ now <= log[key].first + RATE_LIMIT_WINDOW
        THEN setLimit(log, key, [log[key] EXCEPT !.n = log[key].n + 1])
      ELSE setLimit(log, key, [log[key] EXCEPT !.after = Min(log[key].after + 1, 2)])

\* no time span is under observation
NoSpan == -1

\* the count of acceptances within the observed span [span, span + window]:
\* the message of this context was accepted (act = "proceed") or not, now
countInSpan(counts, kind, context, act) ==
  LET key == rateLimitKey(context)
      sofar == IF key \in DOMAIN counts THEN counts[key] ELSE 0
  IN  IF /\ kind = "rateLimit"
         /\ act = "proceed"
         /\ span # NoSpan
         /\ span <= now
         /\ now <= span + RATE_LIMIT_WINDOW
        THEN setLimit(counts, key, sofar + 1)
        ELSE counts

\* the three ways a middleware supplied by a caller of use() can behave
passMiddleware(message, context, limits) == Proceed(context, limits)

throwMiddleware(message, context, limits) == Throw("middleware error", context, limits)

stopMiddleware(message, context, limits) == Return(context, limits)

\* middleware(message, context, next), up to its await of next()
invoke(kind, message, context, limits) ==
  CASE kind = "validation" -> validationMiddleware(message, context, limits)
    [] kind = "logging" -> loggingMiddleware(message, context, limits)
    [] kind = "commandDetection" -> commandDetectionMiddleware(message, context, limits)
    [] kind = "accessControl" -> accessControlMiddleware(message, context, limits)
    [] kind = "userFilter" -> userFilterMiddleware(message, context, limits)
    [] kind = "rateLimit" -> rateLimitMiddleware(message, context, limits)
    [] kind = "pass" -> passMiddleware(message, context, limits)
    [] kind = "throw" -> throwMiddleware(message, context, limits)
    [] kind = "stop" -> stopMiddleware(message, context, limits)

-----------------------------------------------------------------------------
(* MessageBus.publish and executeMiddleware, one step per suspension point *)

Settled == {"idle", "returned", "thrown"}

\* the continuation `next` of executeMiddleware, called with `index` = idx while
\* the invocations stk are suspended and tr has happened
next(idx, stk, tr) ==
  IF idx < Len(middleware)
    THEN /\ index' = idx + 1
         /\ stack' = Append(stk, idx + 1)
         /\ topState' = "run"
         /\ trace' = Append(tr, <<"enter", middleware[idx + 1].id>>)
    ELSE /\ index' = idx
         /\ stack' = stk
         /\ topState' = "resume"
         /\ trace' = tr

\* a chain that is not awaited: resolved while an invocation is still pending
chainResolvedEarly(stk) == Len(stk) <= 1

\* executeMiddleware's `await next()` has resolved once no invocation is pending
chainResolved(stk) == stk = <<>>

\* publish(event, message, context) up to its first suspension: the buffer entry,
\* then executeMiddleware's first call of next()
publish(event, message, context) ==
  /\ pc \in Settled
  /\ published' = published + 1
  /\ sinceClear' = sinceClear + 1
  /\ messageBuffer' = addToBuffer(messageBuffer, [id |-> published + 1, event |-> event])
  /\ pubEvent' = event
  /\ pubMsg' = message
  /\ pubCtx' = context
  /\ raised' = NoError
  /\ errorEvent' = NoError
  /\ thrown' = NoError
  /\ next(0, <<>>, << <<"buffer", 0>> >>)
  /\ pc' = IF chainResolved(stack') THEN "emit" ELSE "chain"
  /\ UNCHANGED <<middleware, registered>>

\* a catch block that rethrows without the broadcast
publishCatchSilent(error) == [broadcast |-> NoError, rethrown |-> error]

\* the catch block of publish: what is broadcast on 'error' and what is rethrown
publishCatch(error) == [broadcast |-> error, rethrown |-> error]

\* the newest middleware invocation runs its body: it throws (publish's catch
\* block runs), returns without calling next(), or calls next()
runMiddleware ==
  /\ pc = "chain"
  /\ topState = "run"
  /\ LET pos == stack[Len(stack)]
         mw == middleware[pos]
         r == invoke(mw.kind, pubMsg, pubCtx, rateLimits)
     IN  /\ pubCtx' = r.ctx
         /\ rateLimits' = r.limits
         /\ rateLog' = observe(rateLog, mw.kind, pubCtx)
         /\ inSpan' = countInSpan(inSpan, mw.kind, pubCtx, r.act)
         /\ IF r.act = "throw"
              THEN /\ raised' = r.error
                   /\ errorEvent' = publishCatch(r.error).broadcast
                   /\ thrown' = publishCatch(r.error).rethrown
                   /\ trace' = trace \o << <<"throw", mw.id>>, <<"error", 0>> >>
                   /\ stack' = <<>>
                   /\ pc' = "thrown"
                   /\ UNCHANGED <<index, topState>>
            ELSE IF r.act = "stop"
              THEN /\ trace' = trace \o << <<"stop", mw.id>>, <<"exit", mw.id>> >>
                   /\ stack' = SubSeq(stack, 1, Len(stack) - 1)
                   /\ topState' = "resume"
                   /\ pc' = IF chainResolved(stack') THEN "emit" ELSE "chain"
                   /\ UNCHANGED <<index, raised, errorEvent, thrown>>
            ELSE /\ next(index, stack, Append(trace, <<"proceed", mw.id>>))
                 /\ UNCHANGED <<pc, raised, errorEvent, thrown>>
  /\ UNCHANGED <<middleware, messageBuffer, registered, published, sinceClear,
                 pubEvent, pubMsg>>
  /\ UNCHANGED <<agents, now, span>>
  /\ UNCHANGED outsideBus

\* the newest middleware invocation resumes from its `await next()` and returns
returnMiddleware ==
  /\ pc = "chain"
  /\ topState = "resume"
  /\ stack # <<>>
  /\ trace' = Append(trace, <<"exit", middleware[stack[Len(stack)]].id>>)
  /\ stack' = SubSeq(stack, 1, Len(stack) - 1)
  /\ pc' = IF chainResolved(stack') THEN "emit" ELSE "chain"
  /\ UNCHANGED <<middleware, messageBuffer, registered, published, sinceClear,
                 pubEvent, pubMsg, pubCtx, index, topState, raised, errorEvent,
                 thrown>>
  /\ UNCHANGED envVars
  /\ UNCHANGED outsideBus

\* a publish that emits only when the chain ran to its end
emitIfChainCompleted ==
  /\ pc = "emit"
  /\ trace' = IF index >= Len(middleware) /\ \A j \in DOMAIN trace : trace[j][1] # "stop"
                THEN Append(trace, <<"emit", 0>>)
                ELSE trace
  /\ pc' = "returned"
  /\ UNCHANGED <<middleware, messageBuffer, registered, published, sinceClear,
                 pubEvent, pubMsg, pubCtx, index, stack, topState, raised,
                 errorEvent, thrown>>
  /\ UNCHANGED envVars
  /\ UNCHANGED outsideBus

\* publish resumes from `await this.executeMiddleware(...)`: this.emit(event, ...)
emit ==
  /\ pc = "emit"
  /\ trace' = Append(trace, <<"emit", 0>>)
  /\ pc' = "returned"
  /\ UNCHANGED <<middleware, messageBuffer, registered, published, sinceClear,
                 pubEvent, pubMsg, pubCtx, index, stack, topState, raised,
                 errorEvent, thrown>>
  /\ UNCHANGED envVars
  /\ UNCHANGED outsideBus

-----------------------------------------------------------------------------
(* CreditTimerKeeper (src/src/core/scheduler.js).  Time is kept relative   *)
(* to the present instant: a pending timeout holds the delay left until it *)
(* is due, and nextHeartbeat the time left until that date (0 once it has  *)
(* passed).                                                                *)

KEEPALIVE_MESSAGE == "hello world (keepalive)"

\* config.creditKeeper.interval and config.creditKeeper.cooldown, in minutes
IntervalMinutes == 2

CooldownMinutes == 1

interval == IntervalMinutes * 60 * 1000

cooldown == CooldownMinutes * 60 * 1000

\* this.timer = null, this.pauseTimer = null
NoTimer == 0

\* this.nextHeartbeat = null
NoDate == -1

MaxHandles == 4

\* the values setTimeout can return
Handles == 1 .. MaxHandles

Max(a, b) == IF a >= b THEN a ELSE b

\* the handle of a new timeout: one that names no pending timeout and that no
\* field in `held` still holds
newHandle(pending, held) ==
  LET free == {h \in Handles : h \notin held /\ \A t \in pending : t.id # h}
  IN  CHOOSE h \in free : \A g \in free : h <= g

\* setTimeout(callback, delay), returning the handle h
setTimeout(pending, h, kind, delay) ==
  pending \cup {[id |-> h, kind |-> kind, delay |-> delay]}

\* a clearTimeout that leaves the timeout pending
clearTimeoutLeaves(pending, handle) == pending

\* clearTimeout(handle): the timeout, if still pending, will not fire
clearTimeout(pending, handle) == {t \in pending : t.id # handle}

HeartbeatArmed == \E t \in armed : t.kind = "heartbeat"

CooldownArmed == \E t \in armed : t.kind = "cooldown"

\* the phase the scheduler is in
phase ==
  IF HeartbeatArmed THEN "Scheduled"
  ELSE IF isPaused /\ CooldownArmed THEN "Paused"
  ELSE "Stopped"

\* the operation op is performed now
performed(name) ==
  /\ op' = name
  /\ opPhase' = phase

\* a scheduleNextHeartbeat that arms the heartbeat during a pause as well
scheduleNextHeartbeatWhilePaused(en, paused, tm, pt, nh, pending) ==
  IF ~en
    THEN [timer |-> tm, nextHeartbeat |-> nh, armed |-> pending]
    ELSE LET cleared == clearTimeout(pending, tm)
             h == newHandle(cleared, {tm, pt})
         IN  [timer |-> h, nextHeartbeat |-> interval,
              armed |-> setTimeout(cleared, h, "heartbeat", interval)]

\* a scheduleNextHeartbeat that does not clear the timeout it replaces
scheduleNextHeartbeatWithoutClear(en, paused, tm, pt, nh, pending) ==
  IF ~en \/ paused
    THEN [timer |-> tm, nextHeartbeat |-> nh, armed |-> pending]
    ELSE LET h == newHandle(pending, {tm, pt})
         IN  [timer |-> h, nextHeartbeat |-> interval,
              armed |-> setTimeout(pending, h, "heartbeat", interval)]

\* scheduleNextHeartbeat() when enabled = en, isPaused = paused, timer = tm,
\* pauseTimer = pt, nextHeartbeat = nh and the timeouts `pending` are pending:
\* the timer, nextHeartbeat and pending timeouts it leaves
scheduleNextHeartbeat(en, paused, tm, pt, nh, pending) ==
  IF ~en \/ paused
    THEN [timer |-> tm, nextHeartbeat |-> nh, armed |-> pending]
    ELSE LET cleared == clearTimeout(pending, tm)
             h == newHandle(cleared, {tm, pt})
         IN  [timer |-> h, nextHeartbeat |-> interval,
              armed |-> setTimeout(cleared, h, "heartbeat", interval)]

\* a start that keeps the callback only when it arms the heartbeat
startWhenEnabled(callback) ==
  /\ performed("start")
  /\ IF ~Truthy(callback)
       THEN /\ schedError' = "sendMessageCallback is required"
            /\ UNCHANGED <<sendMessageCallback, timer, nextHeartbeat, armed>>
       ELSE LET s == IF ~enabled \/ timer # NoTimer
                       THEN [timer |-> timer, nextHeartbeat |-> nextHeartbeat, armed |-> armed]
                       ELSE scheduleNextHeartbeat(enabled, isPaused, timer, pauseTimer,
                                                  nextHeartbeat, armed)
            IN  /\ schedError' = NoError
                /\ sendMessageCallback' = IF enabled THEN callback ELSE sendMessageCallback
                /\ timer' = s.timer
                /\ nextHeartbeat' = s.nextHeartbeat
                /\ armed' = s.armed
  /\ UNCHANGED <<enabled, isPaused, pauseTimer, inFlight, payload, unhandled>>
  /\ UNCHANGED <<busVars, envVars, routerVars, commVars, regVars, appVars>>

start(callback) ==
  /\ performed("start")
  /\ IF ~Truthy(callback)
       THEN /\ schedError' = "sendMessageCallback is required"
            /\ UNCHANGED <<sendMessageCallback, timer, nextHeartbeat, armed>>
       ELSE LET s == IF ~enabled \/ timer # NoTimer
                       THEN [timer |-> timer, nextHeartbeat |-> nextHeartbeat, armed |-> armed]
                       ELSE scheduleNextHeartbeat(enabled, isPaused, timer, pauseTimer,
                                                  nextHeartbeat, armed)
            IN  /\ schedError' = NoError
                /\ sendMessageCallback' = callback
                /\ timer' = s.timer
                /\ nextHeartbeat' = s.nextHeartbeat
                /\ armed' = s.armed
  /\ UNCHANGED <<enabled, isPaused, pauseTimer, inFlight, payload, unhandled>>
  /\ UNCHANGED <<busVars, envVars, routerVars, commVars, regVars, appVars>>

\* the body of stop(): the fields it leaves
stopped ==
  [timer |-> NoTimer,
   nextHeartbeat |-> IF timer # NoTimer THEN NoDate ELSE nextHeartbeat,
   pauseTimer |-> NoTimer,
   isPaused |-> FALSE,
   armed |-> clearTimeout(clearTimeout(armed, timer), pauseTimer)]

stop ==
  /\ performed("stop")
  /\ timer' = stopped.timer
  /\ nextHeartbeat' = stopped.nextHeartbeat
  /\ pauseTimer' = stopped.pauseTimer
  /\ isPaused' = stopped.isPaused
  /\ armed' = stopped.armed
  /\ schedError' = NoError
  /\ UNCHANGED <<enabled, sendMessageCallback, inFlight, payload, unhandled>>
  /\ UNCHANGED <<busVars, envVars, routerVars, commVars, regVars, appVars>>

enable ==
  /\ performed("enable")
  /\ schedError' = NoError
  /\ IF enabled
       THEN UNCHANGED <<enabled, timer, nextHeartbeat, armed>>
       ELSE LET s == IF Truthy(sendMessageCallback)
                       THEN scheduleNextHeartbeat(TRUE, isPaused, timer, pauseTimer,
                                                  nextHeartbeat, armed)
                       ELSE [timer |-> timer, nextHeartbeat |-> nextHeartbeat, armed |-> armed]
            IN  /\ enabled' = TRUE
                /\ timer' = s.timer
                /\ nextHeartbeat' = s.nextHeartbeat
                /\ armed' = s.armed
  /\ UNCHANGED <<isPaused, pauseTimer, sendMessageCallback, inFlight, payload, unhandled>>
  /\ UNCHANGED <<busVars, envVars, routerVars, commVars, regVars, appVars>>

\* a disable that clears the flag and leaves the timers alone
disableFlagOnly ==
  /\ performed("disable")
  /\ schedError' = NoError
  /\ enabled' = FALSE
  /\ UNCHANGED <<timer, nextHeartbeat, pauseTimer, isPaused, armed>>
  /\ UNCHANGED <<sendMessageCallback, inFlight, payload, unhandled>>
  /\ UNCHANGED <<busVars, envVars, routerVars, commVars, regVars, appVars>>

disable ==
  /\ performed("disable")
  /\ schedError' = NoError
  /\ IF ~enabled
       THEN UNCHANGED <<enabled, timer, nextHeartbeat, pauseTimer, isPaused, armed>>
       ELSE /\ enabled' = FALSE
            /\ timer' = stopped.timer
            /\ nextHeartbeat' = stopped.nextHeartbeat
            /\ pauseTimer' = stopped.pauseTimer
            /\ isPaused' = stopped.isPaused
            /\ armed' = stopped.armed
  /\ UNCHANGED <<sendMessageCallback, inFlight, payload, unhandled>>
  /\ UNCHANGED <<busVars, envVars, routerVars, commVars, regVars, appVars>>

pauseAfterRealMessage ==
  /\ performed("pause")
  /\ schedError' = NoError
  /\ IF ~enabled \/ isPaused
       THEN UNCHANGED <<timer, pauseTimer, isPaused, nextHeartbeat, armed>>
       ELSE LET cleared == clearTimeout(clearTimeout(armed, timer), pauseTimer)
                h == newHandle(cleared, {})
            IN  /\ timer' = NoTimer
                /\ isPaused' = TRUE
                /\ nextHeartbeat' = cooldown
                /\ pauseTimer' = h
                /\ armed' = setTimeout(cleared, h, "cooldown", cooldown)
  /\ UNCHANGED <<enabled, sendMessageCallback, inFlight, payload, unhandled>>
  /\ UNCHANGED <<busVars, envVars, routerVars, commVars, regVars, appVars>>

\* a cooldown callback that clears the pause and arms nothing
cooldownFiresWithoutResume ==
  /\ \E t \in armed :
        /\ t.kind = "cooldown"
        /\ t.delay = 0
        /\ armed' = armed \ {t}
  /\ performed("cooldown")
  /\ schedError' = NoError
  /\ isPaused' = FALSE
  /\ pauseTimer' = NoTimer
  /\ UNCHANGED <<timer, nextHeartbeat>>
  /\ UNCHANGED <<enabled, sendMessageCallback, inFlight, payload, unhandled>>
  /\ UNCHANGED <<busVars, envVars, routerVars, commVars, regVars, appVars>>

\* the cooldown timeout is due: its callback runs
cooldownFires ==
  /\ \E t \in armed :
        /\ t.kind = "cooldown"
        /\ t.delay = 0
        /\ LET s == scheduleNextHeartbeat(enabled, FALSE, timer, NoTimer, nextHeartbeat,
                                          armed \ {t})
           IN  /\ timer' = s.timer
               /\ nextHeartbeat' = s.nextHeartbeat
               /\ armed' = s.armed
  /\ performed("cooldown")
  /\ schedError' = NoError
  /\ isPaused' = FALSE
  /\ pauseTimer' = NoTimer
  /\ UNCHANGED <<enabled, sendMessageCallback, inFlight, payload, unhandled>>
  /\ UNCHANGED <<busVars, envVars, routerVars, commVars, regVars, appVars>>

\* the heartbeat timeout is due: its callback runs sendHeartbeat() up to the
\* await of the sendMessageCallback (a callback that is not a function throws
\* at once into sendHeartbeat's catch); the callback's own await of
\* sendHeartbeat() is pending from here on
heartbeatFires ==
  /\ \E t \in armed :
        /\ t.kind = "heartbeat"
        /\ t.delay = 0
        /\ armed' = armed \ {t}
  /\ IF ~enabled \/ isPaused
       THEN /\ performed("skipped")
            /\ UNCHANGED payload
     ELSE IF ~Truthy(sendMessageCallback)
       THEN /\ performed("failed")
            /\ UNCHANGED payload
     ELSE /\ performed("heartbeat")
          /\ payload' = KEEPALIVE_MESSAGE
  /\ inFlight' = inFlight + 1
  /\ schedError' = NoError
  /\ UNCHANGED <<enabled, isPaused, timer, pauseTimer, nextHeartbeat,
                 sendMessageCallback, unhandled>>
  /\ UNCHANGED <<busVars, envVars, routerVars, commVars, regVars, appVars>>

\* a sendHeartbeat whose catch block rethrows
sendHeartbeatRethrows(error) == error

\* the catch block of sendHeartbeat: what it lets out of sendHeartbeat
sendHeartbeatCatch(error) == NoError

\* the sendMessageCallback settles (error = NoError: it resolved) and the timer
\* callback resumes from its await of sendHeartbeat(): the finally block
heartbeatSettles(error) ==
  /\ inFlight > 0
  /\ inFlight' = inFlight - 1
  /\ performed(IF error = NoError THEN "resolved" ELSE "rejected")
  /\ unhandled' = IF error = NoError THEN unhandled ELSE sendHeartbeatCatch(error)
  /\ LET s == scheduleNextHeartbeat(enabled, isPaused, timer, pauseTimer, nextHeartbeat, armed)
     IN  /\ timer' = s.timer
         /\ nextHeartbeat' = s.nextHeartbeat
         /\ armed' = s.armed
  /\ schedError' = NoError
  /\ UNCHANGED <<enabled, isPaused, pauseTimer, sendMessageCallback, payload>>
  /\ UNCHANGED <<busVars, envVars, routerVars, commVars, regVars, appVars>>

\* getStatus(), without the two configuration values
getStatus ==
  [enabled |-> enabled,
   running |-> (timer # NoTimer \/ isPaused),
   paused |-> isPaused,
   nextHeartbeat |-> nextHeartbeat]

\* the time d passes, no pending timeout being overdue
elapse(d) ==
  /\ armed # {}
  /\ \A t \in armed : t.delay >= d
  /\ armed' = {[t EXCEPT !.delay = t.delay - d] : t \in armed}
  /\ nextHeartbeat' = IF nextHeartbeat = NoDate THEN NoDate ELSE Max(nextHeartbeat - d, 0)
  /\ performed("elapse")
  /\ schedError' = NoError
  /\ UNCHANGED <<enabled, isPaused, timer, pauseTimer, sendMessageCallback, inFlight,
                 payload, unhandled>>
  /\ UNCHANGED <<busVars, envVars, routerVars, commVars, regVars, appVars>>

-----------------------------------------------------------------------------
(* AgentRegistry persistence (src/src/core/agentRegistry.js).  A date is   *)
(* [type |-> "Date", ms], its ISO string [type |-> "string", ms] and a     *)
(* null date NullDate; the registry file is [exists, data], data being the *)
(* object written, a map from agent names to serialized records.  A        *)
(* config's allowedIPs is a set, {} when the field is absent.              *)

NoFile == [exists |-> FALSE, data |-> EmptyMap]

NullDate == [type |-> "null", ms |-> 0]

\* new Date() at the instant t
newDateAt(t) == [type |-> "Date", ms |-> t]

\* new Date(string)
newDate(string) == [type |-> "Date", ms |-> string.ms]

\* an ISO string cut to the second
toISOStringSeconds(date) == [type |-> "string", ms |-> date.ms - (date.ms % 1000)]

\* Date.prototype.toISOString()
toISOString(date) == [type |-> "string", ms |-> date.ms]

\* what JSON.stringify writes for a date-valued field
toJSON(value) == IF value.type = "Date" THEN toISOString(value) ELSE value

\* the object save() builds and JSON.stringify writes, for the records mem
serialize(mem) ==
  [name \in DOMAIN mem |->
     [mem[name] EXCEPT
        !.createdAt = toJSON(mem[name].createdAt),
        !.lastSeen = IF mem[name].lastSeen.type = "Date"
                       THEN toISOString(mem[name].lastSeen)
                       ELSE NullDate]]

\* the records load() builds from the parsed file
deserialize(file) ==
  [name \in DOMAIN file.data |->
     [file.data[name] EXCEPT
        !.lastSeen = IF file.data[name].lastSeen.type # "null"
                       THEN newDate(file.data[name].lastSeen)
                       ELSE NullDate]]

\* a write that adds the records of data to those already in the file
writeFileMerging(file, data) ==
  [exists |-> TRUE,
   data |-> [name \in DOMAIN file.data \cup DOMAIN data |->
               IF name \in DOMAIN data THEN data[name] ELSE file.data[name]]]

\* fs.writeFile(path, data) completing: the file holds data and nothing else
writeFile(file, data) == [exists |-> TRUE, data |-> data]

\* the calls whose persistence write has not completed
Writing == {i \in DOMAIN regCalls : regCalls[i].status = "writing"}

\* await this.save() up to the suspension: the object is built from the records
\* mem now, and the write is under way
save(method, name, mem) ==
  /\ regCalls' = Append(regCalls, [method |-> method, name |-> name,
                                   data |-> serialize(mem), status |-> "writing",
                                   completed |-> 0])
  /\ issued' = issued + 1
  /\ serial' = (serial /\ Writing = {})
  /\ regError' = NoError

\* a call that throws before it changes anything
regThrows(error) ==
  /\ regError' = error
  /\ UNCHANGED <<agents, regCalls, issued, serial>>

\* initialize(): load(), which reads the file or, there being none, saves the
\* (empty) record set
initialize ==
  /\ ~loaded
  /\ IF ~store.exists
       THEN /\ store' = writeFile(store, serialize(agents))
            /\ UNCHANGED agents
       ELSE /\ agents' = deserialize(store)
            /\ UNCHANGED store
  /\ loaded' = TRUE
  /\ regError' = NoError
  /\ UNCHANGED <<regCalls, issued, completions, serial, restarts, atExit, exitClean>>
  /\ UNCHANGED <<rateLimits, now, rateLog, span, inSpan>>
  /\ UNCHANGED <<busVars, routerVars, commVars, schedVars, appVars>>

\* the record register() builds from config at the instant t
agentConfig(config, t) ==
  [callbackUrl |-> config.callbackUrl,
   description |-> Or(config.description, ""),
   secret |-> Or(config.secret, Null),
   allowedIPs |-> config.allowedIPs,
   createdAt |-> newDateAt(t),
   lastSeen |-> newDateAt(t),
   active |-> TRUE]

\* a register that keeps the active flag and the creation date of a record
\* that exists already
registerKeeping(name, config) ==
  /\ agents' = setLimit(agents, name,
                        IF name \in DOMAIN agents
                          THEN [agentConfig(config, now) EXCEPT
                                  !.active = agents[name].active,
                                  !.createdAt = agents[name].createdAt]
                          ELSE agentConfig(config, now))
  /\ save("register", name, agents')
  /\ UNCHANGED <<store, loaded, completions, restarts, atExit, exitClean>>
  /\ UNCHANGED <<rateLimits, now, rateLog, span, inSpan>>
  /\ UNCHANGED <<busVars, routerVars, commVars, schedVars, appVars>>

\* register(name, config) up to its suspension, as its caller sees it
registerCalled(name, config) ==
  /\ agents' = setLimit(agents, name, agentConfig(config, now))
  /\ save("register", name, agents')

register(name, config) ==
  /\ registerCalled(name, config)
  /\ UNCHANGED <<store, loaded, completions, restarts, atExit, exitClean>>
  /\ UNCHANGED <<rateLimits, now, rateLog, span, inSpan>>
  /\ UNCHANGED <<busVars, routerVars, commVars, schedVars, appVars>>

unregister(name) ==
  /\ IF name \notin DOMAIN agents
       THEN regThrows("Agent not found")
       ELSE /\ agents' = [n \in DOMAIN agents \ {name} |-> agents[n]]
            /\ save("unregister", name, agents')
  /\ UNCHANGED <<store, loaded, completions, restarts, atExit, exitClean>>
  /\ UNCHANGED <<rateLimits, now, rateLog, span, inSpan>>
  /\ UNCHANGED <<busVars, routerVars, commVars, schedVars, appVars>>

\* updateLastSeen(name) up to its suspension, as its caller sees it
updateLastSeenCalled(name) ==
  IF name \notin DOMAIN agents
    THEN regThrows("Agent not found")
    ELSE /\ agents' = [agents EXCEPT ![name].lastSeen = newDateAt(now)]
         /\ save("updateLastSeen", name, agents')

updateLastSeen(name) ==
  /\ updateLastSeenCalled(name)
  /\ UNCHANGED <<store, loaded, completions, restarts, atExit, exitClean>>
  /\ UNCHANGED <<rateLimits, now, rateLog, span, inSpan>>
  /\ UNCHANGED <<busVars, routerVars, commVars, schedVars, appVars>>

setActive(name, active) ==
  /\ IF name \notin DOMAIN agents
       THEN regThrows("Agent not found")
       ELSE /\ agents' = [agents EXCEPT ![name].active = active]
            /\ save("setActive", name, agents')
  /\ UNCHANGED <<store, loaded, completions, restarts, atExit, exitClean>>
  /\ UNCHANGED <<rateLimits, now, rateLog, span, inSpan>>
  /\ UNCHANGED <<busVars, routerVars, commVars, schedVars, appVars>>

\* the write of call i completes and the call returns
writeCompletes(i) ==
  /\ i \in Writing
  /\ store' = writeFile(store, regCalls[i].data)
  /\ completions' = completions + 1
  /\ regCalls' = [regCalls EXCEPT ![i].status = "returned", ![i].completed = completions + 1]
  /\ regError' = NoError
  /\ UNCHANGED <<agents, loaded, issued, serial, restarts, atExit, exitClean>>
  /\ UNCHANGED <<rateLimits, now, rateLog, span, inSpan>>
  /\ UNCHANGED <<busVars, routerVars, commVars, schedVars, appVars>>

\* the write of call i fails and the call throws the error
writeFails(i) ==
  /\ i \in Writing
  /\ regCalls' = [regCalls EXCEPT ![i].status = "threw"]
  /\ regError' = "write failed"
  /\ UNCHANGED <<agents, store, loaded, issued, completions, serial, restarts, atExit, exitClean>>
  /\ UNCHANGED <<rateLimits, now, rateLog, span, inSpan>>
  /\ UNCHANGED <<busVars, routerVars, commVars, schedVars, appVars>>

\* the fields of the records that a restart is to recover
Recoverable(mem) ==
  [name \in DOMAIN mem |->
     [callbackUrl |-> mem[name].callbackUrl, secret |-> mem[name].secret,
      allowedIPs |-> mem[name].allowedIPs, active |-> mem[name].active,
      lastSeen |-> mem[name].lastSeen]]

\* the latest call to have reached its write returned successfully
LastSaveReturned == regCalls = <<>> \/ regCalls[Len(regCalls)].status = "returned"

\* the process exits and a new one constructs its registry
restart ==
  /\ Writing = {}
  /\ restarts' = restarts + 1
  /\ atExit' = Recoverable(agents)
  /\ exitClean' = (loaded /\ serial /\ LastSaveReturned)
  /\ agents' = EmptyMap
  /\ loaded' = FALSE
  /\ regCalls' = <<>>
  /\ completions' = 0
  /\ serial' = TRUE
  /\ regError' = NoError
  /\ UNCHANGED <<store, issued>>
  /\ UNCHANGED <<rateLimits, now, rateLog, span, inSpan>>
  /\ UNCHANGED <<busVars, routerVars, commVars, schedVars, appVars>>

-----------------------------------------------------------------------------
(* The bus alone: callers register middleware of the three behaviours,     *)
(* publish and clear the buffer, in any interleaving with the chain's      *)
(* suspension points.                                                      *)

MaxMiddleware == 3

MaxPublishes == 3

Kinds == {"pass", "throw", "stop"}

\* new MessageBus(), then use() of each middleware of chain
BusConstructed(chain) ==
  /\ middleware = chain
  /\ messageBuffer = <<>>
  /\ registered = Len(chain)
  /\ published = 0
  /\ sinceClear = 0
  /\ pc = "idle"
  /\ pubEvent = Undefined
  /\ pubMsg = Str(<<>>)
  /\ pubCtx = EmptyContext
  /\ index = 0
  /\ stack = <<>>
  /\ topState = "resume"
  /\ trace = <<>>
  /\ raised = NoError
  /\ errorEvent = NoError
  /\ thrown = NoError

\* the middleware module as loaded, and the registry holding the records reg
EnvLoaded(reg) ==
  /\ rateLimits = EmptyMap
  /\ rateLog = EmptyMap
  /\ span = NoSpan
  /\ inSpan = EmptyMap
  /\ agents = reg
  /\ now = 0

help == <<"h", "e", "l", "p">>

DefaultCommands ==
  {help, <<"s", "t", "a", "t", "u", "s">>, <<"s", "t", "a", "r", "t">>,
   <<"a", "g", "e", "n", "t", "s">>, <<"b", "u", "f", "f", "e", "r">>}

NoResponse == [text |-> Str(<<>>), of |-> "none"]

\* new MessageRouter() and new CommandHandler()
RouterConstructed ==
  /\ platformAdapters = {}
  /\ agentAdapters = {}
  /\ defaultAgent = Null
  /\ commands = DefaultCommands
  /\ rpc = "idle"
  /\ rPlatform = Undefined
  /\ rMsg = Str(<<>>)
  /\ rCtx = EmptyContext
  /\ rAgent = Undefined
  /\ rResponse = NoResponse
  /\ rResult = NoResponse
  /\ rError = NoError
  /\ rtrace = <<>>
  /\ routes = 0

\* an options object without the retries (maxRetries) field
NoOption == -1

\* new AgentCommunicator()
CommConstructed ==
  /\ cpc = "idle"
  /\ cMethod = Undefined
  /\ cBackoff = FALSE
  /\ cHeader = Undefined
  /\ cOption = NoOption
  /\ retries = 0
  /\ attempt = 0
  /\ posts = 0
  /\ waits = <<>>
  /\ cError = 0

\* new CreditTimerKeeper(), config.creditKeeper.enabled being en
SchedulerConstructed(en) ==
  /\ enabled = en
  /\ timer = NoTimer
  /\ nextHeartbeat = NoDate
  /\ isPaused = FALSE
  /\ pauseTimer = NoTimer
  /\ sendMessageCallback = Null
  /\ armed = {}
  /\ inFlight = 0
  /\ payload = Undefined
  /\ unhandled = NoError
  /\ schedError = NoError
  /\ op = "new"
  /\ opPhase = "Stopped"

\* new AgentRegistry(), the registry file being `file`
RegistryConstructed(file) ==
  /\ store = file
  /\ loaded = FALSE
  /\ regCalls = <<>>
  /\ issued = 0
  /\ completions = 0
  /\ serial = TRUE
  /\ regError = NoError
  /\ restarts = 0
  /\ atExit = EmptyMap
  /\ exitClean = FALSE

\* no call has been made from outside yet
AppStarted ==
  /\ checked = [fn |-> "none", name |-> Undefined, arg |-> Undefined, result |-> FALSE]
  /\ exec = [pc |-> "idle", command |-> <<>>, known |-> FALSE, handlerError |-> NoError,
             result |-> NoResponse, error |-> NoError]
  /\ recent = [called |-> FALSE, count |-> NaN, messages |-> <<>>, buffer |-> <<>>]
  /\ http = [pc |-> "idle", status |-> 0, error |-> NoError, from |-> Undefined,
             message |-> Str(<<>>), ip |-> Undefined, secret |-> Undefined,
             call |-> 0, n |-> 0]
  /\ broadcasts = 0
  /\ endpoint = [route |-> "none", pc |-> "idle", status |-> 0, error |-> NoError,
                 name |-> Undefined, secret |-> Undefined, call |-> 0, n |-> 0]

Init ==
  /\ BusConstructed(<<>>)
  /\ EnvLoaded(EmptyMap)
  /\ RouterConstructed
  /\ CommConstructed
  /\ SchedulerConstructed(TRUE)
  /\ RegistryConstructed(NoFile)
  /\ AppStarted

Use ==
  /\ registered < MaxMiddleware
  /\ \E kind \in Kinds : use(kind)

Publish ==
  /\ published < MaxPublishes
  /\ publish("message:incoming", Str(<<"h", "i">>), EmptyContext)
  /\ UNCHANGED envVars
  /\ UNCHANGED outsideBus

Next ==
  \/ Use
  \/ Publish
  \/ runMiddleware
  \/ returnMiddleware
  \/ emit
  \/ clearBuffer

Spec == Init /\ [][Next]_vars

-----------------------------------------------------------------------------
(* Properties of one publish, read off its trace *)

At(tag) == {j \in DOMAIN trace : trace[j][1] = tag}

\* C2: in a publish whose chain completes without throwing, the buffer entry is
\* appended before the first middleware runs, and the event is emitted exactly
\* once, after every middleware invocation has returned.
C2_PublishOrder ==
  /\ trace # <<>> => trace[1] = <<"buffer", 0>> /\ At("buffer") = {1}
  /\ (At("enter") # {} /\ sinceClear > 0) =>
        messageBuffer[Len(messageBuffer)] = [id |-> published, event |-> pubEvent]
  /\ Cardinality(At("emit")) <= 1
  /\ \A j \in At("emit") :
        /\ j = Len(trace)
        /\ stack = <<>>
        /\ Cardinality(At("enter")) = Cardinality(At("exit"))
        /\ At("throw") = {}
  /\ pc = "returned" => Cardinality(At("emit")) = 1

C2_Witness ==
  /\ pc = "returned"
  /\ Cardinality(At("enter")) = 3
  /\ At("stop") = {}

\* C3: if a middleware throws, the event is not emitted, the error is broadcast
\* on the 'error' channel and the same error propagates to the caller.
C3_ThrowAborts ==
  /\ At("throw") # {} <=> pc = "thrown"
  /\ pc = "thrown" =>
        /\ At("emit") = {}
        /\ raised # NoError
        /\ errorEvent = raised
        /\ thrown = raised
        /\ trace[Len(trace)] = <<"error", 0>>
        /\ At("error") = {Len(trace)}
  /\ pc # "thrown" => thrown = NoError /\ errorEvent = NoError

C3_Witness ==
  /\ pc = "thrown"
  /\ Cardinality(At("enter")) = 2
  /\ thrown = "middleware error"

\* C4 as stated: once a middleware has returned without calling proceed(),
\* publish neither emits the event nor raises an error.
C4_Original ==
  At("stop") # {} => At("emit") = {} /\ thrown = NoError

\* C4 amended: once a middleware has returned without calling proceed(), no
\* later middleware runs and publish raises no error, but publish still emits
\* the event, once, when the shortened chain has returned.
C4_StopStillEmits ==
  \A j \in At("stop") :
     /\ \A k \in At("enter") : k < j
     /\ At("throw") = {} /\ thrown = NoError /\ pc # "thrown"
     /\ pc = "returned" => Cardinality(At("emit")) = 1

C4_Witness ==
  /\ pc = "returned"
  /\ \E j \in At("stop") :
        \E i \in DOMAIN middleware :
           /\ middleware[i].id = trace[j][2]
           /\ i < Len(middleware)
           /\ index = i

\* C5: the chain is in registration order, on every publish the middleware run
\* in that order, each only after the one before it called proceed(), and no
\* two of them run at once.
C5_RegistrationOrder ==
  /\ \A i, j \in DOMAIN middleware : i < j => middleware[i].id < middleware[j].id
  /\ \A a, b \in At("enter") : a < b => trace[a][2] < trace[b][2]
  /\ \A b \in At("enter") :
        /\ b > 2 => /\ trace[b - 1][1] = "proceed"
                    /\ \E a \in At("enter") :
                          /\ a < b
                          /\ trace[a][2] = trace[b - 1][2]
                          /\ \A c \in At("enter") : c < b => c <= a
        /\ b < Len(trace) => /\ trace[b + 1][1] \in {"proceed", "stop", "throw"}
                             /\ trace[b + 1][2] = trace[b][2]

C5_Witness ==
  /\ Cardinality(At("enter")) = 3
  /\ published = 2
  /\ \E a \in At("enter") : trace[a][2] = 3 /\ a = Len(trace)

-----------------------------------------------------------------------------
(* The buffer over many publishes: one publish at a time (each awaited      *)
(* before the next), through a chain that accepts some messages and        *)
(* rejects others, with clearBuffer() at any moment.                       *)

MaxBufferPublishes == 102

InitBuffer ==
  /\ BusConstructed(<< [id |-> 1, kind |-> "validation"] >>)
  /\ EnvLoaded(EmptyMap)
  /\ RouterConstructed
  /\ CommConstructed
  /\ SchedulerConstructed(TRUE)
  /\ RegistryConstructed(NoFile)
  /\ AppStarted

PublishBuffered ==
  /\ published < MaxBufferPublishes
  /\ \E message \in {Str(<<"h", "i">>), Str(<<>>)} :
        publish("agent:notify", message, EmptyContext)
  /\ UNCHANGED envVars
  /\ UNCHANGED outsideBus

NextBuffer ==
  \/ PublishBuffered
  \/ runMiddleware
  \/ returnMiddleware
  \/ emit
  \/ clearBuffer

SpecBuffer == InitBuffer /\ [][NextBuffer]_vars

\* C6: after any sequence of publish calls, accepted or rejected by the
\* middleware, and clearBuffer calls, the buffer holds at most maxBufferSize
\* (100) entries.
C6_BufferBounded == Len(messageBuffer) <= maxBufferSize

C6_Witness ==
  /\ Len(messageBuffer) = maxBufferSize
  /\ published > maxBufferSize
  /\ pc = "thrown"

\* C7: after k publish calls awaited one after the other (k counted since the
\* buffer was last cleared, so k is every publish when it never was), the
\* buffer holds exactly the last min(k, maxBufferSize) entries published, in
\* call order: once full, each new entry evicts the single oldest one.
C7_MostRecentInOrder ==
  /\ Len(messageBuffer) = Min(sinceClear, maxBufferSize)
  /\ \A i \in DOMAIN messageBuffer :
        messageBuffer[i].id = published - Len(messageBuffer) + i

C7_Witness ==
  /\ sinceClear = published
  /\ published = maxBufferSize + 2
  /\ messageBuffer[1].id = 3
  /\ pc = "returned"

-----------------------------------------------------------------------------
(* MessageRouter (src/src/core/router.js), one step per suspension point   *)

RSettled == {"idle", "returned", "thrown"}

\* setupMiddleware(): the default chain, in its order
\* an order that puts rate limiting first
RateLimitFirstChain ==
  << [id |-> 5, kind |-> "rateLimit"], [id |-> 1, kind |-> "validation"],
     [id |-> 2, kind |-> "logging"], [id |-> 3, kind |-> "commandDetection"],
     [id |-> 4, kind |-> "accessControl"] >>

DefaultChain ==
  << [id |-> 1, kind |-> "validation"], [id |-> 2, kind |-> "logging"],
     [id |-> 3, kind |-> "commandDetection"], [id |-> 4, kind |-> "accessControl"],
     [id |-> 5, kind |-> "rateLimit"] >>

hasCommand(command) == command \in commands

registerPlatform(name) ==
  /\ platformAdapters' = platformAdapters \cup {name}
  /\ UNCHANGED <<agentAdapters, defaultAgent, commands, rpc, rPlatform, rMsg,
                 rCtx, rAgent, rResponse, rResult, rError, rtrace, routes>>
  /\ UNCHANGED <<busVars, envVars, commVars, schedVars, regVars, appVars>>

registerAgent(name) ==
  /\ agentAdapters' = agentAdapters \cup {name}
  /\ UNCHANGED <<platformAdapters, defaultAgent, commands, rpc, rPlatform, rMsg,
                 rCtx, rAgent, rResponse, rResult, rError, rtrace, routes>>
  /\ UNCHANGED <<busVars, envVars, commVars, schedVars, regVars, appVars>>

\* setDefaultAgent(agentName): throws, changing nothing, for an unregistered name
setDefaultAgent(name) ==
  /\ defaultAgent' = IF name \in agentAdapters THEN name ELSE defaultAgent
  /\ UNCHANGED <<platformAdapters, agentAdapters, commands, rpc, rPlatform, rMsg,
                 rCtx, rAgent, rResponse, rResult, rError, rtrace, routes>>
  /\ UNCHANGED <<busVars, envVars, commVars, schedVars, regVars, appVars>>

\* the context object routeMessage hands to its first publish
incomingContext(context, platformName) == [context EXCEPT !.platform = platformName]

\* the context object routeMessage tests and hands to handlers and adapters
routedContext(context, publishedContext) == context

\* routeMessage(platformName, message, context) up to its first suspension
routeMessage(platformName, message, context) ==
  /\ rpc \in RSettled
  /\ publish("message:incoming", message, incomingContext(context, platformName))
  /\ rpc' = "incoming"
  /\ rPlatform' = platformName
  /\ rMsg' = message
  /\ rCtx' = context
  /\ rAgent' = Undefined
  /\ rResponse' = NoResponse
  /\ rResult' = NoResponse
  /\ rError' = NoError
  /\ rtrace' = << <<"publish", "message:incoming">> >>
  /\ routes' = routes + 1
  /\ UNCHANGED <<platformAdapters, agentAdapters, defaultAgent, commands>>
  /\ UNCHANGED <<envVars, commVars, schedVars, regVars, appVars>>

\* `if (platform && platform.sendMessage) await platform.sendMessage(...)`,
\* then `return response`
deliver(response, tr) ==
  IF rPlatform \in platformAdapters
    THEN /\ rpc' = "deliver"
         /\ rtrace' = Append(tr, <<"platform.sendMessage", rPlatform>>)
         /\ rResponse' = response
         /\ UNCHANGED rResult
    ELSE /\ rpc' = "returned"
         /\ rtrace' = tr
         /\ rResponse' = response
         /\ rResult' = response

\* a resolution that prefers the default agent
agentNameDefaultFirst(context) == Or(defaultAgent, context.agent)

\* const agentName = context.agent || this.defaultAgent
agentName(context) == Or(context.agent, defaultAgent)

\* routeMessage resumes from its await of the message:incoming publish
afterIncoming ==
  /\ rpc = "incoming"
  /\ pc \in {"returned", "thrown"}
  /\ LET context == routedContext(rCtx, pubCtx)
     IN  IF pc = "thrown"
           THEN /\ rpc' = "thrown"
                /\ rError' = thrown
                /\ UNCHANGED <<rAgent, rtrace>>
         ELSE IF context.isCommand /\ hasCommand(context.command)
           THEN /\ rpc' = "command"
                /\ rtrace' = Append(rtrace, <<"commandHandler.execute", "command">>)
                /\ UNCHANGED <<rAgent, rError>>
         ELSE IF ~Truthy(agentName(context))
           THEN /\ rpc' = "thrown"
                /\ rError' = "No agent specified and no default agent set"
                /\ UNCHANGED <<rAgent, rtrace>>
         ELSE IF agentName(context) \notin agentAdapters
           THEN /\ rpc' = "thrown"
                /\ rError' = "Agent not found"
                /\ UNCHANGED <<rAgent, rtrace>>
         ELSE /\ rpc' = "agent"
              /\ rAgent' = agentName(context)
              /\ rtrace' = Append(rtrace, <<"agent.sendMessage", agentName(context)>>)
              /\ UNCHANGED rError
  /\ UNCHANGED <<platformAdapters, agentAdapters, defaultAgent, commands,
                 rPlatform, rMsg, rCtx, rResponse, rResult, routes>>
  /\ UNCHANGED <<busVars, envVars, commVars, schedVars, regVars, appVars>>

\* commandHandler.execute settles: the handler's result, or the error text
\* execute makes of a handler that threw; then the delivery to the platform
commandSettles ==
  /\ rpc = "command"
  /\ \E handlerThrew \in BOOLEAN :
        deliver([text |-> Str(<<"o", "k">>),
                 of |-> IF handlerThrew THEN "command error" ELSE "command"],
                rtrace)
  /\ UNCHANGED <<platformAdapters, agentAdapters, defaultAgent, commands,
                 rPlatform, rMsg, rCtx, rAgent, rError, routes>>
  /\ UNCHANGED <<busVars, envVars, commVars, schedVars, regVars, appVars>>

\* agent.sendMessage settles: it throws, or its response is published as
\* message:outgoing
agentSettles ==
  /\ rpc = "agent"
  /\ \/ /\ rpc' = "thrown"
        /\ rError' = "agent error"
        /\ UNCHANGED <<rResponse, rtrace>>
        /\ UNCHANGED busVars
     \/ \E text \in {Str(<<"o", "k">>), Str(<<>>)} :
           /\ publish("message:outgoing", text, [rCtx EXCEPT !.agent = rAgent])
           /\ rpc' = "outgoing"
           /\ rResponse' = [text |-> text, of |-> "agent"]
           /\ rtrace' = Append(rtrace, <<"publish", "message:outgoing">>)
           /\ UNCHANGED rError
  /\ UNCHANGED <<platformAdapters, agentAdapters, defaultAgent, commands,
                 rPlatform, rMsg, rCtx, rAgent, rResult, routes>>
  /\ UNCHANGED <<envVars, commVars, schedVars, regVars, appVars>>

\* a routeMessage that does not await its message:outgoing publish
afterOutgoingUnawaited ==
  /\ rpc = "outgoing"
  /\ IF pc = "thrown"
       THEN /\ rpc' = "thrown"
            /\ rError' = thrown
            /\ UNCHANGED <<rResponse, rResult, rtrace>>
       ELSE /\ deliver(rResponse, rtrace)
            /\ UNCHANGED rError
  /\ UNCHANGED <<platformAdapters, agentAdapters, defaultAgent, commands,
                 rPlatform, rMsg, rCtx, rAgent, routes>>
  /\ UNCHANGED <<busVars, envVars, commVars, schedVars, regVars, appVars>>

\* a routeMessage that delivers the response whatever became of the
\* message:outgoing publish
afterOutgoingDelivers ==
  /\ rpc = "outgoing"
  /\ pc \in {"returned", "thrown"}
  /\ deliver(rResponse, rtrace)
  /\ UNCHANGED rError
  /\ UNCHANGED <<platformAdapters, agentAdapters, defaultAgent, commands,
                 rPlatform, rMsg, rCtx, rAgent, routes>>
  /\ UNCHANGED <<busVars, envVars, commVars, schedVars, regVars, appVars>>

\* routeMessage resumes from its await of the message:outgoing publish
afterOutgoing ==
  /\ rpc = "outgoing"
  /\ pc \in {"returned", "thrown"}
  /\ IF pc = "thrown"
       THEN /\ rpc' = "thrown"
            /\ rError' = thrown
            /\ UNCHANGED <<rResponse, rResult, rtrace>>
       ELSE /\ deliver(rResponse, rtrace)
            /\ UNCHANGED rError
  /\ UNCHANGED <<platformAdapters, agentAdapters, defaultAgent, commands,
                 rPlatform, rMsg, rCtx, rAgent, routes>>
  /\ UNCHANGED <<busVars, envVars, commVars, schedVars, regVars, appVars>>

\* platform.sendMessage settles: routeMessage returns the response, or rethrows
deliverySettles ==
  /\ rpc = "deliver"
  /\ \/ /\ rpc' = "returned"
        /\ rResult' = rResponse
        /\ UNCHANGED rError
     \/ /\ rpc' = "thrown"
        /\ rError' = "platform error"
        /\ UNCHANGED rResult
  /\ UNCHANGED <<platformAdapters, agentAdapters, defaultAgent, commands,
                 rPlatform, rMsg, rCtx, rAgent, rResponse, rtrace, routes>>
  /\ UNCHANGED <<busVars, envVars, commVars, schedVars, regVars, appVars>>

-----------------------------------------------------------------------------
(* CommandHandler (src/src/core/commandHandler.js) and the buffer's reader *)
(* (messageBus.js)                                                         *)

Digits == <<"0", "1", "2", "3", "4", "5", "6", "7", "8", "9">>

isDigit(c) == \E i \in 1..10 : Digits[i] = c

digit(c) == (CHOOSE i \in 1..10 : Digits[i] = c) - 1

\* the value of the leading decimal digits of chars, continuing from acc
RECURSIVE digitsValue(_, _)
digitsValue(chars, acc) ==
  IF chars = <<>> \/ ~isDigit(Head(chars))
    THEN acc
    ELSE digitsValue(Tail(chars), 10 * acc + digit(Head(chars)))

\* parseInt(string, 10) of a string without white space
parseInt(chars) ==
  LET signed == chars # <<>> /\ Head(chars) \in {"-", "+"}
      body == IF signed THEN Tail(chars) ELSE chars
  IN  IF body = <<>> \/ ~isDigit(Head(body))
        THEN NaN
      ELSE IF signed /\ Head(chars) = "-"
        THEN Num(0 - digitsValue(body, 0))
      ELSE Num(digitsValue(body, 0))

\* the unary minus of `-count`
negate(n) == [nan |-> n.nan, value |-> 0 - n.value]

\* Array.prototype.slice(start): a NaN start counts as 0, a negative one from
\* the end
slice(s, begin) ==
  LET relative == IF begin.nan THEN 0 ELSE begin.value
      from == IF relative < 0 THEN Max(Len(s) + relative, 0) ELSE Min(relative, Len(s))
  IN  SubSeq(s, from + 1, Len(s))

\* getRecentMessages(count): this.messageBuffer.slice(-count)
getRecentMessages(entries, count) == slice(entries, negate(count))

BufferCommandName == <<"b", "u", "f", "f", "e", "r">>

\* bufferCommand(args): the count it asks for, what it reads and its response
bufferCommand(args) ==
  LET count == IF args # <<>> /\ args[1] # <<>> THEN parseInt(args[1]) ELSE Num(5)
      messages == getRecentMessages(messageBuffer, count)
  IN  [recent |-> [called |-> TRUE, count |-> count, messages |-> messages,
                   buffer |-> messageBuffer],
       response |-> [text |-> Str(<<"o", "k">>),
                     of |-> IF messages = <<>> THEN "buffer empty" ELSE "command"]]

\* commandHandler.register(name, handler)
registerCommand(name) ==
  /\ commands' = commands \cup {name}
  /\ UNCHANGED <<platformAdapters, agentAdapters, defaultAgent, rpc, rPlatform, rMsg,
                 rCtx, rAgent, rResponse, rResult, rError, rtrace, routes>>
  /\ UNCHANGED <<busVars, envVars, commVars, schedVars, regVars, appVars>>

\* execute returning response
executeReturns(response) == [pc |-> "returned", result |-> response, error |-> NoError]

\* an execute without the catch block
executeRethrows(error) == [pc |-> "thrown", result |-> NoResponse, error |-> error]

\* the catch block of execute: the error becomes a response text
executeCatch(error) ==
  executeReturns([text |-> Str(<<"o", "k">>), of |-> "command error"])

\* execute(command, args, context), the handler (if there is one) throwing or
\* rejecting with handlerError, or returning when that is NoError
execute(command, args, handlerError) ==
  /\ LET known == hasCommand(command)
         handled == IF command = BufferCommandName
                      THEN bufferCommand(args).response
                      ELSE [text |-> Str(<<"o", "k">>), of |-> "command"]
         outcome == IF ~known
                      THEN executeReturns([text |-> Str(<<"o", "k">>),
                                           of |-> "unknown command"])
                    ELSE IF handlerError = NoError
                      THEN executeReturns(handled)
                    ELSE executeCatch(handlerError)
     IN  /\ exec' = [pc |-> outcome.pc, command |-> command, known |-> known,
                     handlerError |-> IF known THEN handlerError ELSE NoError,
                     result |-> outcome.result, error |-> outcome.error]
         /\ recent' = IF known /\ command = BufferCommandName
                        THEN bufferCommand(args).recent
                        ELSE recent
  /\ UNCHANGED <<checked, http, broadcasts, endpoint>>
  /\ UNCHANGED <<busVars, envVars, routerVars, commVars, schedVars, regVars>>

-----------------------------------------------------------------------------
(* POST /notify (src/unnamed/part_000), one step per suspension point      *)

Responded(status, error) ==
  [http EXCEPT !.pc = "responded", !.status = status, !.error = error]

\* const ip = req.ip || req.socket?.remoteAddress || '127.0.0.1'
requestIP(ip) == Or(ip, "127.0.0.1")

\* checks that do not look at the caller's address
notifyChecksWithoutIP(from, message, ip, secret) ==
  IF ~Truthy(from) \/ (message.str /\ Length(message) = 0)
    THEN [status |-> 400, error |-> "Missing required fields: from, message"]
  ELSE IF ~hasAgent(from)
    THEN [status |-> 403, error |-> "Agent not registered. Please register first."]
  ELSE IF Truthy(agents[from].secret) /\ secret # agents[from].secret
    THEN [status |-> 403, error |-> "Invalid agent secret"]
  ELSE [status |-> 0, error |-> NoError]

\* the checks of the handler before its first await: the response they end in,
\* or status 0 when the request passes them
notifyChecks(from, message, ip, secret) ==
  IF ~Truthy(from) \/ (message.str /\ Length(message) = 0)
    THEN [status |-> 400, error |-> "Missing required fields: from, message"]
  ELSE IF ~hasAgent(from)
    THEN [status |-> 403, error |-> "Agent not registered. Please register first."]
  ELSE IF ~isIPAllowed(from, ip)
    THEN [status |-> 403, error |-> "IP address not allowed"]
  ELSE IF Truthy(agents[from].secret) /\ secret # agents[from].secret
    THEN [status |-> 403, error |-> "Invalid agent secret"]
  ELSE [status |-> 0, error |-> NoError]

\* the handler of POST /notify up to its first suspension, the request having
\* body {from, message}, address reqIp and X-Agent-Secret header secret
notify(from, message, reqIp, secret) ==
  /\ loaded
  /\ http.pc \in {"idle", "responded"}
  /\ pc \in Settled
  /\ LET ip == requestIP(reqIp)
         checks == notifyChecks(from, message, ip, secret)
         request == [http EXCEPT !.from = from, !.message = message, !.ip = ip,
                                 !.secret = secret, !.n = http.n + 1, !.call = 0]
     IN  IF checks.status # 0
           THEN /\ http' = [request EXCEPT !.pc = "responded", !.status = checks.status,
                                            !.error = checks.error]
                /\ UNCHANGED <<agents, regCalls, issued, serial, regError>>
           ELSE /\ updateLastSeenCalled(from)
                /\ http' = [request EXCEPT !.pc = "saving", !.status = 0, !.error = NoError,
                                            !.call = Len(regCalls) + 1]
  /\ UNCHANGED <<store, loaded, completions, restarts, atExit, exitClean>>
  /\ UNCHANGED <<rateLimits, now, rateLog, span, inSpan>>
  /\ UNCHANGED <<busVars, routerVars, commVars, schedVars>>
  /\ UNCHANGED <<checked, exec, recent, broadcasts, endpoint>>

\* the handler resumes from `await agentRegistry.updateLastSeen(from)`: the
\* catch block answers 500, or the message is published
notifyAfterUpdate ==
  /\ http.pc = "saving"
  /\ regCalls[http.call].status # "writing"
  /\ IF regCalls[http.call].status = "threw"
       THEN /\ http' = Responded(500, regError)
            /\ UNCHANGED busVars
       ELSE /\ publish("agent:notify", http.message,
                       [EmptyContext EXCEPT !.from = http.from, !.type = "agent",
                                            !.ip = http.ip])
            /\ http' = [http EXCEPT !.pc = "publishing"]
  /\ UNCHANGED <<envVars, routerVars, commVars, schedVars, regVars>>
  /\ UNCHANGED <<checked, exec, recent, broadcasts, endpoint>>

\* the handler resumes from `await messageBus.publish(...)`: the catch block
\* answers 500, or the message is forwarded to the platforms, whose
\* broadcastMessage may throw, and the handler answers
notifyAfterPublish ==
  /\ http.pc = "publishing"
  /\ pc \in {"returned", "thrown"}
  /\ IF pc = "thrown"
       THEN /\ http' = Responded(500, thrown)
            /\ UNCHANGED broadcasts
       ELSE \/ /\ broadcasts' = broadcasts + Cardinality(platformAdapters)
               /\ http' = Responded(200, NoError)
            \/ \E done \in 0..(Cardinality(platformAdapters) - 1) :
                  /\ broadcasts' = broadcasts + done
                  /\ http' = Responded(500, "platform error")
  /\ UNCHANGED <<busVars, envVars, routerVars, commVars, schedVars, regVars>>
  /\ UNCHANGED <<checked, exec, recent, endpoint>>

-----------------------------------------------------------------------------
(* The router with the default middleware installed *)

MaxRoutes == 2

RouterMessages ==
  {Str(<<"/", "h", "e", "l", "p">>), Str(<<"/", "H", "e", "l", "p", " ", "m", "e">>),
   Str(<<"/", "n", "o">>), Str(<<"h", "i">>), Str(<<>>)}

RouterAgents == {"claude", "openrouter"}

RouterContexts ==
  {[EmptyContext EXCEPT !.user = "U1"],
   [EmptyContext EXCEPT !.user = "U1", !.agent = "ghost"],
   [EmptyContext EXCEPT !.user = "U1", !.agent = "openrouter"],
   [EmptyContext EXCEPT !.user = "U1", !.isCommand = TRUE, !.command = help]}

InitRouter ==
  /\ BusConstructed(DefaultChain)
  /\ EnvLoaded(EmptyMap)
  /\ RouterConstructed
  /\ CommConstructed
  /\ SchedulerConstructed(TRUE)
  /\ RegistryConstructed(NoFile)
  /\ AppStarted

RegisterPlatform == registerPlatform("slack")

RegisterAgent == \E name \in RouterAgents : registerAgent(name)

SetDefaultAgent == \E name \in RouterAgents \cup {"ghost"} : setDefaultAgent(name)

RouteMessage ==
  /\ routes < MaxRoutes
  /\ \E message \in RouterMessages, context \in RouterContexts :
        routeMessage("slack", message, context)

NextRouter ==
  \/ RegisterPlatform
  \/ RegisterAgent
  \/ SetDefaultAgent
  \/ RouteMessage
  \/ runMiddleware
  \/ returnMiddleware
  \/ emit
  \/ afterIncoming
  \/ commandSettles
  \/ agentSettles
  \/ afterOutgoing
  \/ deliverySettles

SpecRouter == InitRouter /\ [][NextRouter]_vars

\* the command name a message carries: its first token without the sigil,
\* in lower case
CommandName(message) == toLowerCase(SliceFrom(split(Chars(message), " ")[1], 1))

Called(tag) == {j \in DOMAIN rtrace : rtrace[j][1] = tag}

\* C1: when routeMessage is called with a message that begins with the command
\* sigil and names a registered command (default middleware installed, the
\* caller's context not carrying isCommand), no agent adapter's sendMessage is
\* invoked, and the call returns the handler's result, executed via
\* CommandHandler and delivered to the originating platform adapter.
C1_CommandDispatch ==
  (/\ rpc # "idle"
   /\ startsWith(rMsg, "/")
   /\ CommandName(rMsg) \in commands
   /\ ~rCtx.isCommand)
  => /\ Called("agent.sendMessage") = {}
     /\ rpc = "returned" =>
           /\ Called("commandHandler.execute") # {}
           /\ rResult.of \in {"command", "command error"}
           /\ rPlatform \in platformAdapters =>
                 rtrace[Len(rtrace)] = <<"platform.sendMessage", rPlatform>>

NoAgentErrors == {"No agent specified and no default agent set", "Agent not found"}

\* C24: for a message not dispatched as a command, routeMessage sends to
\* context.agent when present and otherwise to the configured default agent;
\* if neither is set or the resolved name has no registered adapter it fails
\* with a 'no agent' error, and in that case no agent send, no message:outgoing
\* publish and no platform delivery occurs.
C24_AgentResolution ==
  /\ [][(rpc = "incoming" /\ rpc' # "incoming" /\ pc = "returned" /\ rpc' # "command") =>
          LET resolved == IF Truthy(rCtx.agent) THEN rCtx.agent ELSE defaultAgent
          IN  IF resolved \in agentAdapters
                THEN /\ rpc' = "agent"
                     /\ rAgent' = resolved
                     /\ rtrace' = Append(rtrace, <<"agent.sendMessage", resolved>>)
                ELSE /\ rpc' = "thrown"
                     /\ rError' \in NoAgentErrors
                     /\ rtrace' = rtrace
                     /\ UNCHANGED busVars]_vars
  /\ []((rpc = "thrown" /\ rError \in NoAgentErrors) =>
          /\ rtrace = << <<"publish", "message:incoming">> >>
          /\ pubEvent = "message:incoming")

\* a message naming an unregistered agent failed although a default agent was
\* set
C24_Witness ==
  /\ rpc = "thrown"
  /\ rError = "Agent not found"
  /\ rCtx.agent = "ghost"
  /\ defaultAgent = "claude"
  /\ "openrouter" \in agentAdapters

\* C25: in a successful agent forward, routeMessage performs in this order:
\* message:incoming publish, the agent's send, message:outgoing publish of the
\* result text, delivery to the platform adapter, return; the platform is never
\* delivered a result before the outgoing publish has completed.
C25_ForwardOrder ==
  (rResponse.of = "agent" /\ rpc \in {"deliver", "returned"}) =>
     LET forward == << <<"publish", "message:incoming">>,
                       <<"agent.sendMessage", rAgent>>,
                       <<"publish", "message:outgoing">> >>
         delivered == Append(forward, <<"platform.sendMessage", rPlatform>>)
     IN  /\ rtrace \in {forward, delivered}
         /\ rpc = "deliver" => rtrace = delivered
         /\ rtrace = delivered => rPlatform \in platformAdapters
         /\ rpc = "returned" => rResult = rResponse
         /\ pubEvent = "message:outgoing"
         /\ pubMsg = rResponse.text
         /\ pc = "returned"
         /\ trace[Len(trace)] = <<"emit", 0>>

\* a forward to the agent named in the context returned after its delivery
C25_Witness ==
  /\ rpc = "returned"
  /\ rResult.of = "agent"
  /\ rAgent = "openrouter"
  /\ Len(rtrace) = 4
  /\ rtrace[4] = <<"platform.sendMessage", "slack">>

\* C26: if the middleware chain rejects either publish performed inside
\* routeMessage, routeMessage fails with that error and the platform adapter's
\* sendMessage is not invoked for that call; when the message:incoming publish
\* is rejected, no command handler and no agent adapter is invoked either.
C26_RejectionAborts ==
  pc = "thrown" =>
     /\ rpc \in {"incoming", "outgoing", "thrown"}
     /\ rpc = "thrown" => rError = thrown /\ rError = raised
     /\ Called("platform.sendMessage") = {}
     /\ pubEvent = "message:incoming" =>
           /\ Called("commandHandler.execute") = {}
           /\ Called("agent.sendMessage") = {}
           /\ rtrace = << <<"publish", "message:incoming">> >>

\* the agent's empty reply was rejected by the chain and the call failed
\* without a delivery, the platform being registered
C26_Witness ==
  /\ pc = "thrown"
  /\ rpc = "thrown"
  /\ pubEvent = "message:outgoing"
  /\ rError = "Invalid message format"
  /\ rPlatform \in platformAdapters
  /\ Called("agent.sendMessage") # {}

-----------------------------------------------------------------------------
(* AgentCommunicator (src/unnamed/part_004), one step per suspension point *)

CSettled == {"idle", "returned", "thrown"}

maxRetries == 2

retryDelay == 1000

\* a || b on an optional number: an absent one and 0 are both falsy
OrNumber(a, b) == IF a = NoOption \/ a = 0 THEN b ELSE a

RECURSIVE Pow2(_)
Pow2(n) == IF n = 0 THEN 1 ELSE 2 * Pow2(n - 1)

\* the loop of sendToAgent and of sendWithBackoff up to its first axios.post,
\* as its caller sees it
startSendCalled(method, backoff, option, header) ==
  /\ cpc \in CSettled
  /\ cMethod' = method
  /\ cBackoff' = backoff
  /\ cHeader' = header
  /\ cOption' = option
  /\ retries' = OrNumber(option, maxRetries)
  /\ attempt' = 0
  /\ posts' = 0
  /\ waits' = <<>>
  /\ cError' = 0
  /\ cpc' = "post"

startSend(method, backoff, option, header) ==
  /\ startSendCalled(method, backoff, option, header)
  /\ UNCHANGED <<busVars, envVars, routerVars, schedVars, regVars, appVars>>

\* sendToAgent(agentUrl, message, {retries, headers})
sendToAgent(option, header) == startSend("sendToAgent", FALSE, option, header)

\* sendWithBackoff(agentUrl, message, {maxRetries})
sendWithBackoff(option) == startSend("sendWithBackoff", TRUE, option, Undefined)

\* the headers sendReply builds: X-Agent-Secret only for a truthy secret
replyHeader(secret) == IF Truthy(secret) THEN secret ELSE Undefined

\* sendReply(agentUrl, reply, context)
sendReply(secret) == startSend("sendReply", FALSE, NoOption, replyHeader(secret))

\* notifyUser(agentUrl, notification, context)
notifyUser == startSend("notifyUser", FALSE, NoOption, Undefined)

\* axios.post resolves: the call returns response.data
postSucceeds ==
  /\ cpc = "post"
  /\ posts' = posts + 1
  /\ cpc' = "returned"
  /\ UNCHANGED <<cMethod, cBackoff, cHeader, cOption, retries, attempt, waits, cError>>
  /\ UNCHANGED <<busVars, envVars, routerVars, schedVars, regVars, appVars>>

\* axios.post rejects (no 2xx answer, or the timeout): the catch block
postFails ==
  /\ cpc = "post"
  /\ posts' = posts + 1
  /\ IF attempt = retries
       THEN /\ cpc' = "thrown"
            /\ cError' = retries + 1
            /\ UNCHANGED attempt
       ELSE /\ cpc' = "delay"
            /\ attempt' = attempt + 1
            /\ UNCHANGED cError
  /\ UNCHANGED <<cMethod, cBackoff, cHeader, cOption, retries, waits>>
  /\ UNCHANGED <<busVars, envVars, routerVars, schedVars, regVars, appVars>>

retryWaitFlat(backoff, n) == retryDelay

\* the delay before a retry
retryWait(backoff, n) == IF backoff THEN retryDelay * Pow2(n - 1) ELSE retryDelay * n

\* `await this.delay(...)` of a retry elapses
delayElapses ==
  /\ cpc = "delay"
  /\ waits' = Append(waits, retryWait(cBackoff, attempt))
  /\ cpc' = "post"
  /\ UNCHANGED <<cMethod, cBackoff, cHeader, cOption, retries, attempt, posts, cError>>
  /\ UNCHANGED <<busVars, envVars, routerVars, schedVars, regVars, appVars>>

MaxRetriesOption == 3

InitComm ==
  /\ BusConstructed(DefaultChain)
  /\ EnvLoaded(EmptyMap)
  /\ RouterConstructed
  /\ CommConstructed
  /\ SchedulerConstructed(TRUE)
  /\ RegistryConstructed(NoFile)
  /\ AppStarted

SendToAgent ==
  \E option \in {NoOption} \cup 0..MaxRetriesOption, header \in {Undefined, "s1"} :
     sendToAgent(option, header)

SendWithBackoff ==
  \E option \in {NoOption} \cup 0..MaxRetriesOption : sendWithBackoff(option)

SendReply == \E secret \in {Undefined, Null, "s1"} : sendReply(secret)

NextComm ==
  \/ SendToAgent
  \/ SendWithBackoff
  \/ SendReply
  \/ notifyUser
  \/ postSucceeds
  \/ postFails
  \/ delayElapses

SpecComm == InitComm /\ [][NextComm]_vars

\* C8: for every retries value r >= 0 passed in the options, sendToAgent makes
\* at most r+1 delivery attempts, none after a successful one, and raises its
\* error, naming r+1 attempts, only after all r+1 attempts have failed.
C8_AtMostRetriesPlusOne ==
  (cMethod = "sendToAgent" /\ cOption >= 0) =>
     /\ posts <= cOption + 1
     /\ cpc = "returned" => attempt = posts - 1
     /\ cpc = "thrown" => posts = cOption + 1 /\ cError = cOption + 1

\* C32: no wait precedes the first delivery attempt, and the wait before the
\* N-th retry (N >= 1) is retryDelay*N in sendToAgent and retryDelay*2^(N-1)
\* in sendWithBackoff, so the successive waits of one call strictly increase.
C32_RetryWaits ==
  /\ posts = 0 => waits = <<>>
  /\ cpc = "post" => Len(waits) = posts
  /\ \A n \in 1..Len(waits) :
        waits[n] = IF cMethod = "sendWithBackoff"
                     THEN retryDelay * (2 ^ (n - 1))
                     ELSE retryDelay * n
  /\ \A m, n \in 1..Len(waits) : m < n => waits[m] < waits[n]

C32_Witness ==
  /\ cMethod = "sendWithBackoff"
  /\ Len(waits) = 3
  /\ cpc = "post"

-----------------------------------------------------------------------------
(* Publishes through the default chain against a loaded registry *)

MaxAccessPublishes == 2

\* a registry as load() leaves it: a1 with a secret and an allow-list, a2 with
\* neither
LoadedAgents ==
  [name \in {"a1", "a2"} |->
     IF name = "a1"
       THEN [secret |-> "s1", allowedIPs |-> {"127.0.0.1"}, active |-> TRUE]
       ELSE [secret |-> Null, allowedIPs |-> {}, active |-> TRUE]]

AccessContexts ==
  {[EmptyContext EXCEPT !.from = from, !.type = type, !.secret = secret, !.ip = ip] :
     from \in {"a1", "a2", "ghost"},
     type \in {"agent", "user"},
     secret \in {Undefined, "s1", "bad"},
     ip \in {Undefined, "127.0.0.1", "10.0.0.5", "::1"}}

InitAccess ==
  /\ BusConstructed(DefaultChain)
  /\ EnvLoaded(LoadedAgents)
  /\ RouterConstructed
  /\ CommConstructed
  /\ SchedulerConstructed(TRUE)
  /\ RegistryConstructed(NoFile)
  /\ AppStarted

PublishAgentMessage ==
  /\ published < MaxAccessPublishes
  /\ \E context \in AccessContexts :
        publish("agent:notify", Str(<<"h", "i">>), context)
  /\ UNCHANGED envVars
  /\ UNCHANGED outsideBus

NextAccess ==
  \/ PublishAgentMessage
  \/ runMiddleware
  \/ returnMiddleware
  \/ emit

SpecAccess == InitAccess /\ [][NextAccess]_vars

\* whether the middleware of the given kind let this publish pass / rejected it
Passed(kind) ==
  \E j \in At("proceed") :
     \E i \in DOMAIN middleware : middleware[i].kind = kind /\ middleware[i].id = trace[j][2]

Rejected(kind) ==
  \E j \in At("throw") :
     \E i \in DOMAIN middleware : middleware[i].kind = kind /\ middleware[i].id = trace[j][2]

\* C9: a message published with context.type = "agent" passes the access
\* control middleware only if the named agent is registered, the supplied
\* secret equals the record's secret whenever the record has one (a missing
\* secret is rejected), and the IP, whenever one is present, is on the agent's
\* allow-list (an empty list allowing every IP); a message of any other type is
\* never rejected by it.
C9_AccessControl ==
  /\ (pubCtx.type = "agent" /\ Passed("accessControl")) =>
        /\ pubCtx.from \in DOMAIN agents
        /\ Truthy(agents[pubCtx.from].secret) => pubCtx.secret = agents[pubCtx.from].secret
        /\ Truthy(pubCtx.ip) =>
              \/ agents[pubCtx.from].allowedIPs = {}
              \/ normalizeIP(pubCtx.ip) \in agents[pubCtx.from].allowedIPs
  /\ pubCtx.type # "agent" => ~Rejected("accessControl")

-----------------------------------------------------------------------------
(* One user's messages through the default chain while time passes *)

MaxRatePublishes == 33

TickStep == 20000

MaxTime == 140000

InitRate ==
  /\ BusConstructed(DefaultChain)
  /\ EnvLoaded(EmptyMap)
  /\ RouterConstructed
  /\ CommConstructed
  /\ SchedulerConstructed(TRUE)
  /\ RegistryConstructed(NoFile)
  /\ AppStarted

PublishUserMessage ==
  /\ published < MaxRatePublishes
  /\ publish("message:incoming", Str(<<"h", "i">>), [EmptyContext EXCEPT !.user = "U1"])
  /\ UNCHANGED envVars
  /\ UNCHANGED outsideBus

\* time passes
Tick ==
  /\ now < MaxTime
  /\ now' = now + TickStep
  /\ UNCHANGED <<rateLimits, agents, rateLog, span, inSpan>>
  /\ UNCHANGED busVars
  /\ UNCHANGED outsideBus

NextRate ==
  \/ PublishUserMessage
  \/ Tick
  \/ runMiddleware
  \/ returnMiddleware
  \/ emit

SpecRate == InitRate /\ [][NextRate]_vars

\* C10: with window 60 s and cap 30, for an identity that starts with no
\* counter, the first 30 messages that reach the rate limiter within the window
\* of the first one are accepted and the 31st within it is rejected with the
\* rate-limit error; the first message to arrive after that window has elapsed
\* is accepted and leaves the identity's count at 1.
C10_WindowCap ==
  LET key == rateLimitKey(pubCtx)
      decided == Passed("rateLimit") \/ Rejected("rateLimit")
  IN  decided =>
        /\ (rateLog[key].after = 0 /\ rateLog[key].n <= MAX_MESSAGES_PER_WINDOW) =>
              Passed("rateLimit")
        /\ (rateLog[key].after = 0 /\ rateLog[key].n = MAX_MESSAGES_PER_WINDOW + 1) =>
              /\ Rejected("rateLimit")
              /\ thrown = "Rate limit exceeded. Please slow down."
        /\ rateLog[key].after = 1 =>
              /\ Passed("rateLimit")
              /\ rateLimits[key].count = 1

C10_Witness ==
  /\ Passed("rateLimit")
  /\ rateLog["U1"].n = MAX_MESSAGES_PER_WINDOW + 1
  /\ rateLog["U1"].after = 1
  /\ rateLimits["U1"].count = 1

-----------------------------------------------------------------------------
(* One user's messages through the rate limiter alone, with the acceptances *)
(* of one time span of window length counted                               *)

MaxSpanPublishes == 32

SpanStep == 30000

MaxSpanTime == 90000

InitSpan ==
  /\ BusConstructed(<< [id |-> 1, kind |-> "rateLimit"] >>)
  /\ EnvLoaded(EmptyMap)
  /\ RouterConstructed
  /\ CommConstructed
  /\ SchedulerConstructed(TRUE)
  /\ RegistryConstructed(NoFile)
  /\ AppStarted

PublishInSpan ==
  /\ published < MaxSpanPublishes
  /\ publish("message:incoming", Str(<<"h", "i">>), [EmptyContext EXCEPT !.user = "U1"])
  /\ UNCHANGED envVars
  /\ UNCHANGED outsideBus

\* the observed span begins at this instant
beginSpan ==
  /\ span = NoSpan
  /\ pc \in Settled
  /\ span' = now
  /\ inSpan' = EmptyMap
  /\ UNCHANGED <<rateLimits, agents, now, rateLog>>
  /\ UNCHANGED busVars
  /\ UNCHANGED outsideBus

\* time passes
TickSpan ==
  /\ now < MaxSpanTime
  /\ pc \in Settled
  /\ now' = now + SpanStep
  /\ UNCHANGED <<rateLimits, agents, rateLog, span, inSpan>>
  /\ UNCHANGED busVars
  /\ UNCHANGED outsideBus

NextSpan ==
  \/ PublishInSpan
  \/ beginSpan
  \/ TickSpan
  \/ runMiddleware
  \/ returnMiddleware
  \/ emit

SpecSpan == InitSpan /\ [][NextSpan]_vars

\* the acceptances of U1 within the observed span
AcceptedInSpan == IF "U1" \in DOMAIN inSpan THEN inSpan["U1"] ELSE 0

\* C11: rate limiting counts messages in a rolling window: for every identity
\* and every time span of window length (60 s), at most cap (30) of that
\* identity's messages are accepted by the rate limiter within the span.
C11_RollingWindow == AcceptedInSpan <= MAX_MESSAGES_PER_WINDOW

-----------------------------------------------------------------------------
(* The heartbeat scheduler under any sequence of its operations, timer     *)
(* firings and callback completions                                        *)

MaxInFlight == 2

\* the time that passes in one step
Minute == 60 * 1000

InitSched ==
  /\ BusConstructed(<<>>)
  /\ EnvLoaded(EmptyMap)
  /\ RouterConstructed
  /\ CommConstructed
  /\ \E en \in BOOLEAN : SchedulerConstructed(en)
  /\ RegistryConstructed(NoFile)
  /\ AppStarted

Start == \E callback \in {"sendMessage", Null} : start(callback)

HeartbeatFires ==
  /\ inFlight < MaxInFlight
  /\ heartbeatFires

HeartbeatSettles == \E error \in {NoError, "callback failed"} : heartbeatSettles(error)

Elapse == elapse(Minute)

NextSched ==
  \/ Start
  \/ stop
  \/ enable
  \/ disable
  \/ pauseAfterRealMessage
  \/ HeartbeatFires
  \/ cooldownFires
  \/ HeartbeatSettles
  \/ Elapse

SpecSched == InitSched /\ [][NextSched]_vars

\* due timeouts fire, time passes while a timeout is pending, and a
\* sendMessageCallback that was invoked settles
SpecSchedFair ==
  /\ InitSched
  /\ [][NextSched]_vars
  /\ WF_vars(HeartbeatFires)
  /\ WF_vars(cooldownFires)
  /\ WF_vars(HeartbeatSettles)
  /\ WF_vars(Elapse)

\* the scheduler fields of the program (not the record of what happened)
keeperFields == <<enabled, timer, nextHeartbeat, isPaused, pauseTimer, sendMessageCallback>>

\* the only pending timeout is this one
OnlyArmed(handle, kind, delay) ==
  armed = {[id |-> handle, kind |-> kind, delay |-> delay]}

\* C12: in every reachable scheduler state exactly one phase holds: Stopped (no
\* timer armed), Scheduled (heartbeat timer armed) or Paused (pause flag set and
\* cooldown timer armed), and enabled = false implies Stopped, after any
\* sequence of start, stop, enable, disable, pauseAfterRealMessage and timer
\* firings.
C12_ExactlyOnePhase ==
  LET Stopped == armed = {}
      Scheduled == HeartbeatArmed
      Paused == isPaused /\ CooldownArmed
  IN  /\ Stopped \/ Scheduled \/ Paused
      /\ ~(Stopped /\ Scheduled)
      /\ ~(Stopped /\ Paused)
      /\ ~(Scheduled /\ Paused)
      /\ ~enabled => Stopped

\* a heartbeat callback settles while the scheduler is paused
C12_Witness ==
  /\ op \in {"resolved", "rejected"}
  /\ isPaused
  /\ CooldownArmed
  /\ ~HeartbeatArmed

\* C13: pauseAfterRealMessage() called while Scheduled cancels the pending
\* heartbeat timer (it is no longer pending, so it never fires), arms exactly
\* one cooldown timer, due after the cooldown, and moves the scheduler to Paused.
C13_PauseFromScheduled ==
  (op = "pause" /\ opPhase = "Scheduled") =>
     /\ isPaused
     /\ timer = NoTimer
     /\ pauseTimer # NoTimer
     /\ OnlyArmed(pauseTimer, "cooldown", cooldown)
     /\ nextHeartbeat = cooldown
     /\ phase = "Paused"

C13_Witness ==
  /\ op = "pause"
  /\ opPhase = "Scheduled"
  /\ phase = "Paused"
  /\ inFlight > 0

\* C14: pauseAfterRealMessage() is effective only from Scheduled: called while
\* Paused, while disabled, or while Stopped with the enabled flag set (never
\* started, or after stop()), it changes no scheduler state and arms no timer.
C14_PauseOnlyFromScheduled ==
  [][(pauseAfterRealMessage /\ phase # "Scheduled") =>
        (UNCHANGED keeperFields /\ UNCHANGED armed)]_vars

\* C15: disable() called in any state leaves the scheduler Stopped with the
\* enabled flag cleared and no timer armed; afterwards, as long as the flag is
\* cleared (until enable()), no timer is armed and no heartbeat callback
\* invocation begins.
C15_DisableStops ==
  /\ op = "disable" =>
        /\ ~enabled
        /\ ~isPaused
        /\ armed = {}
        /\ timer = NoTimer
        /\ pauseTimer = NoTimer
  /\ ~enabled =>
        /\ armed = {}
        /\ op # "heartbeat"

\* a callback that was in flight when disable() was called settles
C15_Witness ==
  /\ ~enabled
  /\ op \in {"resolved", "rejected"}
  /\ payload = KEEPALIVE_MESSAGE
  /\ armed = {}

\* C16: the cooldown timer's firing returns a Paused scheduler to Scheduled with
\* the heartbeat timer armed for the regular interval; a pauseAfterRealMessage()
\* call during the cooldown leaves the cooldown timer as it is; and under fair
\* timer firing a Paused scheduler does not stay Paused forever.
C16_CooldownResumes ==
  /\ [](op = "cooldown" =>
          /\ ~isPaused
          /\ pauseTimer = NoTimer
          /\ OnlyArmed(timer, "heartbeat", interval)
          /\ phase = "Scheduled")
  /\ [][(pauseAfterRealMessage /\ phase = "Paused") => UNCHANGED <<armed, pauseTimer>>]_vars
  /\ (phase = "Paused") ~> (phase # "Paused")

C16_Witness ==
  /\ op = "cooldown"
  /\ opPhase = "Paused"
  /\ phase = "Scheduled"

C39_AtMostOneTimer ==
  /\ Cardinality(armed) <= 1
  /\ \A t \in armed :
        \/ t.kind = "heartbeat" /\ t.id = timer
        \/ t.kind = "cooldown" /\ t.id = pauseTimer

\* the first of two callbacks in flight settles after a stop() and a start()
\* armed a new heartbeat
C39_Witness ==
  /\ op = "resolved"
  /\ opPhase = "Scheduled"
  /\ inFlight = 1
  /\ Cardinality(armed) = 1
  /\ HeartbeatArmed

\* C40: whenever the scheduler is Stopped (no timer armed and not paused),
\* getStatus() reports the next scheduled fire time as null - in particular
\* after disable() or stop() is called from Paused.  Stated for the states in
\* which no heartbeat callback is in flight.
C40_StoppedReportsNull ==
  (armed = {} /\ ~isPaused /\ inFlight = 0) => getStatus.nextHeartbeat = NoDate

-----------------------------------------------------------------------------
(* The agent registry under calls that may overlap, write failures, the    *)
(* passing of time and a restart of the process                            *)

MaxRegistryCalls == 2

MaxRestarts == 1

RegistryStep == 500

MaxRegistryTime == 500

AgentNames == {"a1", "a2"}

\* the config objects passed to register()
RegisterConfigs ==
  {[callbackUrl |-> "http://localhost:4000/callback", description |-> "first",
    secret |-> "s1", allowedIPs |-> {"127.0.0.1"}],
   [callbackUrl |-> "http://localhost:5000/callback", description |-> Undefined,
    secret |-> Undefined, allowedIPs |-> {}]}

InitRegistry ==
  /\ BusConstructed(<<>>)
  /\ EnvLoaded(EmptyMap)
  /\ RouterConstructed
  /\ CommConstructed
  /\ SchedulerConstructed(TRUE)
  /\ RegistryConstructed(NoFile)
  /\ AppStarted

\* a call that the program makes once initialize() has returned
Callable ==
  /\ loaded
  /\ issued < MaxRegistryCalls

Register ==
  /\ Callable
  /\ \E name \in AgentNames, config \in RegisterConfigs : register(name, config)

Unregister ==
  /\ Callable
  /\ \E name \in AgentNames : unregister(name)

UpdateLastSeen ==
  /\ Callable
  /\ \E name \in AgentNames : updateLastSeen(name)

SetActive ==
  /\ Callable
  /\ \E name \in AgentNames, active \in BOOLEAN : setActive(name, active)

WriteCompletes == \E i \in DOMAIN regCalls : writeCompletes(i)

WriteFails == \E i \in DOMAIN regCalls : writeFails(i)

Restart ==
  /\ restarts < MaxRestarts
  /\ restart

\* time passes
TickRegistry ==
  /\ now < MaxRegistryTime
  /\ now' = now + RegistryStep
  /\ UNCHANGED <<rateLimits, agents, rateLog, span, inSpan>>
  /\ UNCHANGED <<busVars, routerVars, commVars, schedVars, regVars, appVars>>

NextRegistry ==
  \/ initialize
  \/ Register
  \/ Unregister
  \/ UpdateLastSeen
  \/ SetActive
  \/ WriteCompletes
  \/ WriteFails
  \/ Restart
  \/ TickRegistry

SpecRegistry == InitRegistry /\ [][NextRegistry]_vars

\* C19: when the registry's mutating calls are awaited one at a time, at the
\* return of every successful call the persisted store, as a load would read
\* it, equals the in-memory record set in callbackUrl, secret, allowedIPs,
\* active flag and lastSeen, so a restart that loads the store recovers exactly
\* those agents; loading when no store exists succeeds and creates an empty
\* store.
C19_PersistedEqualsMemory ==
  /\ (loaded /\ serial /\ Writing = {} /\ LastSaveReturned) =>
        /\ store.exists
        /\ Recoverable(deserialize(store)) = Recoverable(agents)
  /\ (loaded /\ restarts > 0 /\ exitClean /\ regCalls = <<>>) =>
        Recoverable(agents) = atExit
  /\ (loaded /\ restarts = 0 /\ regCalls = <<>>) =>
        /\ store.exists
        /\ store.data = EmptyMap

\* a restart has recovered an agent that was registered and seen later
C19_Witness ==
  /\ loaded
  /\ restarts = 1
  /\ exitClean
  /\ regCalls = <<>>
  /\ "a1" \in DOMAIN agents
  /\ agents["a1"].lastSeen = newDateAt(RegistryStep)
  /\ agents["a1"].createdAt = toISOString(newDateAt(0))
  /\ agents["a1"].secret = "s1"

\* C20: when registry mutating calls overlap, the store holds, once all of them
\* have returned, the full snapshot of the call whose write completed last
\* (whatever the order of the calls), while the in-memory record set is the one
\* the last call made left: so there is an interleaving after which both calls
\* have returned successfully and the store lacks one call's update that the
\* memory contains.
C20_LastWriteWins ==
  /\ (Writing = {} /\ completions > 0) =>
        \E i \in DOMAIN regCalls :
           /\ regCalls[i].completed = completions
           /\ store = [exists |-> TRUE, data |-> regCalls[i].data]
  /\ regCalls # <<>> => serialize(agents) = regCalls[Len(regCalls)].data

\* two overlapping calls have both returned and the store lacks the second's
\* update
C20_Witness ==
  /\ Len(regCalls) = 2
  /\ regCalls[1].status = "returned"
  /\ regCalls[2].status = "returned"
  /\ regCalls[1].method \in {"register", "updateLastSeen", "setActive"}
  /\ regCalls[2].method \in {"register", "updateLastSeen", "setActive"}
  /\ regCalls[1].completed > regCalls[2].completed
  /\ store.data = regCalls[1].data
  /\ store.data # serialize(agents)

-----------------------------------------------------------------------------
(* The registry started on the file an earlier run left, which holds a1,   *)
(* deactivated                                                             *)

SavedFile ==
  writeFile(NoFile,
            serialize([name \in {"a1"} |->
                         [agentConfig(CHOOSE c \in RegisterConfigs : c.secret = "s1", 0)
                            EXCEPT !.active = FALSE]]))

InitSaved ==
  /\ BusConstructed(<<>>)
  /\ EnvLoaded(EmptyMap)
  /\ RouterConstructed
  /\ CommConstructed
  /\ SchedulerConstructed(TRUE)
  /\ RegistryConstructed(SavedFile)
  /\ AppStarted

NextSaved ==
  \/ initialize
  \/ Register
  \/ UpdateLastSeen
  \/ SetActive
  \/ WriteCompletes
  \/ TickRegistry

SpecSaved == InitSaved /\ [][NextSaved]_vars

\* the step is a call of register(name, ...)
Registers(name) ==
  /\ Len(regCalls') = Len(regCalls) + 1
  /\ regCalls'[Len(regCalls')].method = "register"
  /\ regCalls'[Len(regCalls')].name = name

\* C23: register(name, cfg) on a new or an existing name leaves exactly one
\* record for that name with active=true and the supplied callbackUrl, secret
\* and allowedIPs, replacing every field of any earlier record (a deactivated
\* agent becomes active again), and leaves every other agent's record
\* unchanged.
C23_RegisterReplaces ==
  [][\A name \in AgentNames :
       Registers(name) =>
          /\ name \in DOMAIN agents'
          /\ \E config \in RegisterConfigs :
                agents'[name] =
                  [callbackUrl |-> config.callbackUrl,
                   description |-> IF config.description = Undefined
                                     THEN ""
                                     ELSE config.description,
                   secret |-> IF config.secret = Undefined THEN Null ELSE config.secret,
                   allowedIPs |-> config.allowedIPs,
                   createdAt |-> [type |-> "Date", ms |-> now],
                   lastSeen |-> [type |-> "Date", ms |-> now],
                   active |-> TRUE]
          /\ DOMAIN agents' = DOMAIN agents \cup {name}
          /\ \A other \in DOMAIN agents \ {name} : agents'[other] = agents[other]]_vars

\* a2 was registered and then the deactivated a1 of the file was registered
\* anew, later and with the other config
C23_Witness ==
  /\ loaded
  /\ Len(regCalls) = 2
  /\ regCalls[1].method = "register"
  /\ regCalls[1].name = "a2"
  /\ regCalls[2].method = "register"
  /\ regCalls[2].name = "a1"
  /\ now = RegistryStep
  /\ agents["a1"].active
  /\ agents["a1"].secret = Null
  /\ agents["a1"].allowedIPs = {}
  /\ agents["a1"].createdAt = newDateAt(RegistryStep)
  /\ "a2" \in DOMAIN agents

-----------------------------------------------------------------------------
(* Commands executed and the buffer read while messages are published      *)

MaxCommandPublishes == 5

MaxRecentCount == 6

ping == <<"p", "i", "n", "g">>

CommandNames == DefaultCommands \cup {ping, <<"n", "o">>}

\* the args the router passes: the tokens after the command
CommandArgs ==
  {<<>>, << <<"3">> >>, << <<"0">> >>, << <<"1", "0">> >>, << <<"x">> >>,
   << <<>>, <<"3">> >>}

InitCommands ==
  /\ BusConstructed(<<>>)
  /\ EnvLoaded(EmptyMap)
  /\ RouterConstructed
  /\ CommConstructed
  /\ SchedulerConstructed(TRUE)
  /\ RegistryConstructed(NoFile)
  /\ AppStarted

PublishNote ==
  /\ published < MaxCommandPublishes
  /\ publish("message:incoming", Str(<<"h", "i">>), EmptyContext)
  /\ UNCHANGED envVars
  /\ UNCHANGED outsideBus

RegisterCommand == registerCommand(ping)

Execute ==
  \E command \in CommandNames,
     handlerError \in {NoError, "handler threw", "handler rejected"} :
       \E args \in IF command = BufferCommandName THEN CommandArgs ELSE {<<>>} :
          execute(command, args, handlerError)

GetRecentMessages ==
  /\ \E n \in 0..MaxRecentCount :
        recent' = [called |-> TRUE, count |-> Num(n),
                   messages |-> getRecentMessages(messageBuffer, Num(n)),
                   buffer |-> messageBuffer]
  /\ UNCHANGED <<checked, exec, http, broadcasts, endpoint>>
  /\ UNCHANGED <<busVars, envVars, routerVars, commVars, schedVars, regVars>>

NextCommands ==
  \/ PublishNote
  \/ emit
  \/ RegisterCommand
  \/ Execute
  \/ GetRecentMessages

SpecCommands == InitCommands /\ [][NextCommands]_vars

\* C27: CommandHandler.execute(name, args, context) never throws: for an
\* unregistered name it returns an 'unknown command' text, and when the
\* registered handler throws or rejects it returns an error text instead of
\* propagating the exception; execute leaves the table of registered handlers
\* unchanged.
C27_ExecuteNeverThrows ==
  /\ [](/\ exec.pc # "thrown"
        /\ exec.error = NoError
        /\ exec.pc = "returned" =>
              /\ ~exec.known => exec.result.of = "unknown command"
              /\ (exec.known /\ exec.handlerError # NoError) =>
                    exec.result.of = "command error"
              /\ (exec.known /\ exec.handlerError = NoError) =>
                    exec.result.of \in {"command", "buffer empty"})
  /\ [][exec' # exec => commands' = commands]_vars

\* a registered handler rejected and execute returned the error text
C27_Witness ==
  /\ exec.pc = "returned"
  /\ exec.command = ping
  /\ exec.known
  /\ exec.handlerError = "handler rejected"
  /\ exec.result.of = "command error"

\* C29: getRecentMessages(n) returns, for every n >= 0 and every buffer state,
\* exactly the last min(n, size) buffer entries, oldest first, and never more
\* than n entries; in particular /buffer 3 after 5 published messages returns
\* exactly the 3 most recent, oldest first.
C29_RecentMessages ==
  (recent.called /\ ~recent.count.nan /\ recent.count.value >= 0) =>
     LET n == recent.count.value
         size == Len(recent.buffer)
         k == IF n <= size THEN n ELSE size
     IN  /\ recent.messages = [i \in 1..k |-> recent.buffer[size - k + i]]
         /\ Len(recent.messages) <= n

-----------------------------------------------------------------------------
(* Command detection alone, on messages whose tokens are separated in      *)
(* several ways                                                            *)

MaxDetectPublishes == 3

DetectContext == [EmptyContext EXCEPT !.user = "U1"]

DetectMessages ==
  {Str(<<"/", "h", "e", "l", "p">>),
   Str(<<"/", "B", "u", "f", "f", "e", "r", " ", "3">>),
   Str(<<"/", "b", "u", "f", "f", "e", "r", " ", " ", "3">>),
   Str(<<"/", "s", "t", "a", "r", "t", " ", "a", "1", "\t", "g", "o">>),
   Str(<<"/", "s", "t", "a", "r", "t", " ", "a", "1", " ", "g", "o", " ">>),
   Str(<<" ", "/", "h", "e", "l", "p">>),
   Str(<<"h", "i", " ", "/", "x">>),
   Str(<<"h", "i">>),
   Str(<<"/">>),
   Str(<<>>)}

InitDetect ==
  /\ BusConstructed(<< [id |-> 1, kind |-> "commandDetection"] >>)
  /\ EnvLoaded(EmptyMap)
  /\ RouterConstructed
  /\ CommConstructed
  /\ SchedulerConstructed(TRUE)
  /\ RegistryConstructed(NoFile)
  /\ AppStarted

PublishTyped ==
  /\ published < MaxDetectPublishes
  /\ \E message \in DetectMessages : publish("message:incoming", message, DetectContext)
  /\ UNCHANGED envVars
  /\ UNCHANGED outsideBus

NextDetect ==
  \/ PublishTyped
  \/ runMiddleware
  \/ returnMiddleware
  \/ emit

SpecDetect == InitDetect /\ [][NextDetect]_vars

WhiteSpace == {" ", "\t", "\n"}

\* the tokens of chars: its maximal runs of characters that are not white space
RECURSIVE Tokens(_)
Tokens(chars) ==
  IF chars = <<>> THEN <<>>
  ELSE IF Head(chars) \in WhiteSpace THEN Tokens(Tail(chars))
  ELSE LET n == IF \E i \in 1..Len(chars) : chars[i] \in WhiteSpace
                  THEN (CHOOSE i \in 1..Len(chars) :
                          /\ chars[i] \in WhiteSpace
                          /\ \A j \in 1..(i - 1) : chars[j] \notin WhiteSpace) - 1
                  ELSE Len(chars)
       IN  <<SubSeq(chars, 1, n)>> \o Tokens(SubSeq(chars, n + 1, Len(chars)))

\* C28: for every message whose first token starts with the command sigil '/',
\* command detection sets isCommand=true, command to the lower-cased first
\* token without the sigil, and args to exactly the remaining whitespace-split
\* tokens (no empty tokens, whatever whitespace separates them); for every
\* other message it leaves the context unchanged.
C28_CommandDetection ==
  Passed("commandDetection") =>
     LET tokens == Tokens(Chars(pubMsg))
     IN  IF tokens # <<>> /\ Head(tokens)[1] = "/"
           THEN /\ pubCtx.isCommand
                /\ pubCtx.command = toLowerCase(Tail(Head(tokens)))
                /\ pubCtx.args = Tail(tokens)
           ELSE pubCtx = DetectContext

-----------------------------------------------------------------------------
(* Agents posting to /notify: a1 registered with the allow-list            *)
(* ['127.0.0.1'] and no secret, a2 with the secret 's1' and no allow-list  *)

MaxNotifies == 2

NotifyFile ==
  writeFile(NoFile,
            serialize([name \in AgentNames |->
                         IF name = "a1"
                           THEN agentConfig([callbackUrl |-> "http://localhost:4000/callback",
                                             description |-> Undefined,
                                             secret |-> Undefined,
                                             allowedIPs |-> {"127.0.0.1"}], 0)
                           ELSE agentConfig([callbackUrl |-> "http://localhost:5000/callback",
                                             description |-> Undefined,
                                             secret |-> "s1",
                                             allowedIPs |-> {}], 0)]))

NotifyMessages == {Str(<<"h", "i">>), Str(<<>>), [str |-> FALSE, text |-> <<>>, fill |-> 0]}

InitNotify ==
  /\ BusConstructed(DefaultChain)
  /\ EnvLoaded(EmptyMap)
  /\ RouterConstructed
  /\ CommConstructed
  /\ SchedulerConstructed(TRUE)
  /\ RegistryConstructed(NotifyFile)
  /\ AppStarted

Notify ==
  /\ http.n < MaxNotifies
  /\ \E from \in AgentNames \cup {"ghost", Undefined}, message \in NotifyMessages,
        reqIp \in {Undefined, "127.0.0.1", "10.0.0.5", "::1"},
        secret \in {Undefined, "s1", "bad"} :
          notify(from, message, reqIp, secret)

NextNotify ==
  \/ initialize
  \/ RegisterPlatform
  \/ Notify
  \/ WriteCompletes
  \/ WriteFails
  \/ notifyAfterUpdate
  \/ runMiddleware
  \/ returnMiddleware
  \/ emit
  \/ notifyAfterPublish
  \/ TickRegistry

SpecNotify == InitNotify /\ [][NextNotify]_vars

\* C30: POST /notify for a registered agent with a non-empty allow-list
\* succeeds from a listed IP and answers 403 from an unlisted IP (agent a1 with
\* allowedIPs ['127.0.0.1'] and no secret: 127.0.0.1 succeeds, 10.0.0.5 gets
\* 403); a /notify rejected for an unknown agent, a disallowed IP or a wrong
\* secret updates no lastSeen, publishes nothing to the bus and forwards
\* nothing to any platform.  (A request that passed the checks succeeds unless
\* the registry's write, the middleware chain or a platform's broadcast fails,
\* which answers 500 with that error.)
C30_NotifyAllowList ==
  /\ []((/\ http.pc = "responded"
         /\ http.status # 400
         /\ http.from \in DOMAIN agents
         /\ agents[http.from].allowedIPs # {}) =>
           LET listed == (IF http.ip \in {"::1", "::ffff:127.0.0.1"}
                            THEN "127.0.0.1"
                            ELSE http.ip) \in agents[http.from].allowedIPs
               secretOK == \/ agents[http.from].secret = Null
                           \/ http.secret = agents[http.from].secret
           IN  /\ ~listed => http.status = 403 /\ http.error = "IP address not allowed"
               /\ (listed /\ secretOK) =>
                     /\ http.status \in {200, 500}
                     /\ http.status = 200 <=> http.error = NoError
                     /\ http.status = 500 =>
                           http.error \in {"write failed", "platform error", thrown})
  /\ [][(http' # http /\ http'.status = 403) =>
          /\ http'.error \in {"Agent not registered. Please register first.",
                               "IP address not allowed", "Invalid agent secret"}
          /\ UNCHANGED <<agents, regVars, busVars, rateLimits, broadcasts>>]_vars

\* a1's message from 127.0.0.1 was forwarded and its later one from 10.0.0.5
\* was answered 403, a1's lastSeen still being that of the first
C30_Witness ==
  /\ http.pc = "responded"
  /\ http.status = 403
  /\ http.from = "a1"
  /\ http.ip = "10.0.0.5"
  /\ http.n = 2
  /\ now = RegistryStep
  /\ broadcasts = 1
  /\ agents["a1"].lastSeen = newDateAt(0)
  /\ published = 1

-----------------------------------------------------------------------------
(* The registry's security predicates, called with every kind of argument  *)
(* against every kind of record that register() builds                     *)

GateSecrets == {Undefined, "", "s1", "bad"}

GateIPs == {"127.0.0.1", "::1", "::ffff:127.0.0.1", "10.0.0.5", "192.168.1.9"}

GateNames == {"a1", "ghost"}

\* the config objects from which a1 was registered
GateConfigs ==
  [callbackUrl : {"http://localhost:4000/callback"},
   description : {Undefined},
   secret : {Undefined, "s1"},
   allowedIPs : {{}, {"127.0.0.1"}, {"10.0.0.5", "::1"}, {"192.168.1.9"}, {"::1"}}]

InitGate ==
  /\ BusConstructed(<<>>)
  /\ \E config \in GateConfigs : EnvLoaded([name \in {"a1"} |-> agentConfig(config, 0)])
  /\ RouterConstructed
  /\ CommConstructed
  /\ SchedulerConstructed(TRUE)
  /\ RegistryConstructed(NoFile)
  /\ AppStarted

VerifySecret ==
  /\ \E name \in GateNames, secret \in GateSecrets :
        checked' = [fn |-> "verifySecret", name |-> name, arg |-> secret,
                    result |-> verifySecret(name, secret)]
  /\ UNCHANGED <<exec, recent, http, broadcasts, endpoint>>
  /\ UNCHANGED <<busVars, envVars, routerVars, commVars, schedVars, regVars>>

IsIPAllowed ==
  /\ \E name \in GateNames, ip \in GateIPs :
        checked' = [fn |-> "isIPAllowed", name |-> name, arg |-> ip,
                    result |-> isIPAllowed(name, ip)]
  /\ UNCHANGED <<exec, recent, http, broadcasts, endpoint>>
  /\ UNCHANGED <<busVars, envVars, routerVars, commVars, schedVars, regVars>>

NextGate ==
  \/ VerifySecret
  \/ IsIPAllowed

SpecGate == InitGate /\ [][NextGate]_vars

\* C21: isIPAllowed(agent, ip) returns true for every ip when the agent's
\* allowedIPs is empty; when allowedIPs is non-empty it returns true exactly
\* when ip, after mapping the IPv6 loopback forms '::1' and '::ffff:127.0.0.1'
\* to '127.0.0.1', is a member of allowedIPs; it returns false for an unknown
\* agent.
C21_IsIPAllowed ==
  checked.fn = "isIPAllowed" =>
     LET mapped == IF checked.arg \in {"::1", "::ffff:127.0.0.1"}
                     THEN "127.0.0.1"
                     ELSE checked.arg
     IN  /\ checked.name \notin DOMAIN agents => ~checked.result
         /\ checked.name \in DOMAIN agents =>
               /\ agents[checked.name].allowedIPs = {} => checked.result
               /\ agents[checked.name].allowedIPs # {} =>
                     (checked.result <=> mapped \in agents[checked.name].allowedIPs)

\* the long loopback form was admitted by a list that names 127.0.0.1
C21_Witness ==
  /\ checked.fn = "isIPAllowed"
  /\ checked.name = "a1"
  /\ checked.arg = "::ffff:127.0.0.1"
  /\ agents["a1"].allowedIPs = {"127.0.0.1"}
  /\ checked.result

\* C22: verifySecret(agent, s) returns true for every s (including empty or
\* absent) when the agent's configured secret is unset, returns true only for
\* s exactly equal to the configured secret when one is set, and returns false
\* for an unknown agent.
C22_VerifySecret ==
  checked.fn = "verifySecret" =>
     /\ checked.name \notin DOMAIN agents => ~checked.result
     /\ checked.name \in DOMAIN agents =>
           /\ agents[checked.name].secret = Null => checked.result
           /\ agents[checked.name].secret # Null =>
                 (checked.result <=> checked.arg = agents[checked.name].secret)

\* a call without a secret was refused for an agent that has one
C22_Witness ==
  /\ checked.fn = "verifySecret"
  /\ checked.name = "a1"
  /\ checked.arg = Undefined
  /\ agents["a1"].secret = "s1"
  /\ ~checked.result

-----------------------------------------------------------------------------
(* POST /reply and POST /agents/register (src/unnamed/part_000), one step  *)
(* per suspension point                                                    *)

Answered(status, error) ==
  [endpoint EXCEPT !.pc = "responded", !.status = status, !.error = error]

\* checks that do not look at the agent's active flag
replyChecksIgnoringActive(to, text) ==
  IF ~Truthy(to) \/ ~Truthy(text)
    THEN [status |-> 400, error |-> "Missing required fields: to, reply"]
  ELSE IF ~hasAgent(to)
    THEN [status |-> 404, error |-> "Agent not found"]
  ELSE [status |-> 0, error |-> NoError]

\* the checks of the /reply handler before its await: the response they end
\* in, or status 0 when the request passes them
replyChecks(to, text) ==
  IF ~Truthy(to) \/ ~Truthy(text)
    THEN [status |-> 400, error |-> "Missing required fields: to, reply"]
  ELSE IF ~hasAgent(to)
    THEN [status |-> 404, error |-> "Agent not found"]
  ELSE IF ~agents[to].active
    THEN [status |-> 400, error |-> "Agent is not active"]
  ELSE [status |-> 0, error |-> NoError]

\* the handler of POST /reply up to its suspension, the request having body
\* {to, reply: text}
reply(to, text) ==
  /\ loaded
  /\ endpoint.pc \in {"idle", "responded"}
  /\ cpc \in CSettled
  /\ LET checks == replyChecks(to, text)
         received == [endpoint EXCEPT !.route = "/reply", !.name = to,
                                      !.secret = Undefined, !.call = 0,
                                      !.n = endpoint.n + 1]
     IN  IF checks.status # 0
           THEN /\ endpoint' = [received EXCEPT !.pc = "responded",
                                                !.status = checks.status,
                                                !.error = checks.error]
                /\ UNCHANGED commVars
           ELSE /\ startSendCalled("sendReply", FALSE, NoOption,
                                   replyHeader(agents[to].secret))
                /\ endpoint' = [received EXCEPT !.pc = "sending", !.status = 0,
                                                !.error = NoError]
  /\ UNCHANGED <<busVars, envVars, routerVars, schedVars, regVars>>
  /\ UNCHANGED <<checked, exec, recent, http, broadcasts>>

\* the handler resumes from `await agentCommunicator.sendReply(...)`: it
\* answers with the agent's response, or its catch block answers 500
replyAfterSend ==
  /\ endpoint.route = "/reply"
  /\ endpoint.pc = "sending"
  /\ cpc \in {"returned", "thrown"}
  /\ endpoint' = IF cpc = "thrown"
                   THEN Answered(500, "Failed to communicate with agent")
                   ELSE Answered(200, NoError)
  /\ UNCHANGED <<busVars, envVars, routerVars, commVars, schedVars, regVars>>
  /\ UNCHANGED <<checked, exec, recent, http, broadcasts>>

\* the handler of POST /agents/register up to its suspension, the request
\* having body {name, callbackUrl, secret, allowedIPs}
agentsRegister(name, callbackUrl, secret, allowedIPs) ==
  /\ loaded
  /\ endpoint.pc \in {"idle", "responded"}
  /\ LET received == [endpoint EXCEPT !.route = "/agents/register", !.name = name,
                                      !.secret = secret, !.call = 0,
                                      !.n = endpoint.n + 1]
     IN  IF ~Truthy(name) \/ ~Truthy(callbackUrl)
           THEN /\ endpoint' = [received EXCEPT
                                  !.pc = "responded", !.status = 400,
                                  !.error = "Missing required fields: name, callbackUrl"]
                /\ UNCHANGED <<agents, regCalls, issued, serial, regError>>
           ELSE /\ registerCalled(name, [callbackUrl |-> callbackUrl,
                                         description |-> Undefined,
                                         secret |-> secret,
                                         allowedIPs |-> allowedIPs])
                /\ endpoint' = [received EXCEPT !.pc = "saving", !.status = 0,
                                                !.error = NoError,
                                                !.call = Len(regCalls) + 1]
  /\ UNCHANGED <<store, loaded, completions, restarts, atExit, exitClean>>
  /\ UNCHANGED <<rateLimits, now, rateLog, span, inSpan>>
  /\ UNCHANGED <<busVars, routerVars, commVars, schedVars>>
  /\ UNCHANGED <<checked, exec, recent, http, broadcasts>>

\* the handler resumes from `await agentRegistry.register(...)`: it answers
\* with the new record, or its catch block answers 500
agentsRegisterAfterSave ==
  /\ endpoint.route = "/agents/register"
  /\ endpoint.pc = "saving"
  /\ regCalls[endpoint.call].status # "writing"
  /\ endpoint' = IF regCalls[endpoint.call].status = "threw"
                   THEN Answered(500, regError)
                   ELSE Answered(200, NoError)
  /\ UNCHANGED <<busVars, envVars, routerVars, commVars, schedVars, regVars>>
  /\ UNCHANGED <<checked, exec, recent, http, broadcasts>>

-----------------------------------------------------------------------------
(* Replies posted to /reply for a1 (active, secret 's1'), a2 (active, no   *)
(* secret), a3 (deactivated) and names that are not registered             *)

MaxReplies == 2

ReplyFile ==
  writeFile(NoFile,
            serialize([name \in {"a1", "a2", "a3"} |->
                         [agentConfig([callbackUrl |-> "http://localhost:4000/callback",
                                       description |-> Undefined,
                                       secret |-> IF name = "a2" THEN Undefined ELSE "s1",
                                       allowedIPs |-> {}], 0)
                            EXCEPT !.active = (name # "a3")]]))

InitReply ==
  /\ BusConstructed(DefaultChain)
  /\ EnvLoaded(EmptyMap)
  /\ RouterConstructed
  /\ CommConstructed
  /\ SchedulerConstructed(TRUE)
  /\ RegistryConstructed(ReplyFile)
  /\ AppStarted

Reply ==
  /\ endpoint.n < MaxReplies
  /\ \E to \in {"a1", "a2", "a3", "ghost", Undefined}, text \in {"hi", ""} :
        reply(to, text)

NextReply ==
  \/ initialize
  \/ Reply
  \/ postSucceeds
  \/ postFails
  \/ delayElapses
  \/ replyAfterSend

SpecReply == InitReply /\ [][NextReply]_vars

\* C31: POST /reply attempts delivery to the agent's callback URL only if the
\* target agent is registered and active; for an unknown or inactive target it
\* responds with an error and makes no delivery attempt, and a delivery
\* carries the agent's configured secret as the authentication header exactly
\* when the agent has one.
C31_ReplyDelivery ==
  /\ [][(endpoint'.n # endpoint.n /\ endpoint'.route = "/reply") =>
          LET to == endpoint'.name
              target == hasAgent(to) /\ agents[to].active
          IN  /\ cpc' = "post" =>
                    /\ target
                    /\ posts' = 0
                    /\ IF Truthy(agents[to].secret)
                         THEN cHeader' = agents[to].secret
                         ELSE cHeader' = Undefined
              /\ ~target =>
                    /\ endpoint'.pc = "responded"
                    /\ endpoint'.status \in {400, 404}
                    /\ UNCHANGED commVars]_vars
  /\ []((endpoint.route = "/reply" /\ endpoint.pc = "responded"
            /\ endpoint.status \in {400, 404}) => cpc \in CSettled)
  /\ [][posts' > posts => endpoint.pc = "sending" /\ UNCHANGED cHeader]_vars

C31_Witness ==
  /\ endpoint.route = "/reply"
  /\ endpoint.name = "a1"
  /\ endpoint.pc = "responded"
  /\ endpoint.status = 200
  /\ cHeader = "s1"
  /\ posts = 2

-----------------------------------------------------------------------------
(* Messages of several senders through the rate limiter alone, starting    *)
(* from the counters that 29 messages of U1 and 30 of a1 at instant 0      *)
(* leave                                                                   *)

MaxBucketPublishes == 4

BucketStep == RATE_LIMIT_WINDOW + 1

MaxBucketTime == BucketStep

BucketContexts ==
  {[EmptyContext EXCEPT !.user = "U1", !.from = "a1", !.ip = "10.0.0.5"],
   [EmptyContext EXCEPT !.user = "", !.from = "a1", !.ip = "10.0.0.5"],
   [EmptyContext EXCEPT !.from = Null, !.ip = "10.0.0.5"],
   [EmptyContext EXCEPT !.user = "U2"],
   EmptyContext}

InitBuckets ==
  /\ BusConstructed(<< [id |-> 1, kind |-> "rateLimit"] >>)
  /\ rateLimits = [key \in {"U1", "a1"} |->
                     [count |-> IF key = "U1" THEN MAX_MESSAGES_PER_WINDOW - 1
                                               ELSE MAX_MESSAGES_PER_WINDOW,
                      resetAt |-> RATE_LIMIT_WINDOW]]
  /\ rateLog = [key \in {"U1", "a1"} |->
                  [first |-> 0, n |-> rateLimits[key].count, after |-> 0]]
  /\ span = NoSpan
  /\ inSpan = EmptyMap
  /\ agents = EmptyMap
  /\ now = 0
  /\ RouterConstructed
  /\ CommConstructed
  /\ SchedulerConstructed(TRUE)
  /\ RegistryConstructed(NoFile)
  /\ AppStarted

PublishFrom ==
  /\ published < MaxBucketPublishes
  /\ \E context \in BucketContexts :
        publish("message:incoming", Str(<<"h", "i">>), context)
  /\ UNCHANGED envVars
  /\ UNCHANGED outsideBus

\* time passes
TickBuckets ==
  /\ now < MaxBucketTime
  /\ pc \in Settled
  /\ now' = now + BucketStep
  /\ UNCHANGED <<rateLimits, agents, rateLog, span, inSpan>>
  /\ UNCHANGED busVars
  /\ UNCHANGED outsideBus

NextBuckets ==
  \/ PublishFrom
  \/ TickBuckets
  \/ runMiddleware
  \/ returnMiddleware
  \/ emit

SpecBuckets == InitBuckets /\ [][NextBuckets]_vars

\* the first non-empty of user, from and ip, else the constant bucket
Bucket(context) ==
  IF Truthy(context.user) THEN context.user
  ELSE IF Truthy(context.from) THEN context.from
  ELSE IF Truthy(context.ip) THEN context.ip
  ELSE "unknown"

\* C33: the rate-limit bucket of a message is context.user if non-empty, else
\* context.from, else context.ip, else the constant 'unknown'; counters of
\* different buckets are independent, so messages counted in one bucket never
\* cause a rejection or a reset in another.
C33_Buckets ==
  [][LET own == Bucket(pubCtx)
     IN  /\ DOMAIN rateLimits' \subseteq DOMAIN rateLimits \cup {own}
         /\ \A key \in DOMAIN rateLimits \ {own} :
               /\ key \in DOMAIN rateLimits'
               /\ rateLimits'[key] = rateLimits[key]
         /\ rateLimits' # rateLimits =>
               /\ own \in DOMAIN rateLimits'
               /\ rateLimits'[own].count =
                    IF own \in DOMAIN rateLimits /\ now <= rateLimits[own].resetAt
                      THEN rateLimits[own].count + 1
                      ELSE 1
         /\ (raised' # NoError /\ raised = NoError) =>
               /\ own \in DOMAIN rateLimits
               /\ now <= rateLimits[own].resetAt
               /\ rateLimits[own].count >= MAX_MESSAGES_PER_WINDOW]_vars

C33_Witness ==
  /\ Passed("rateLimit")
  /\ Bucket(pubCtx) = "10.0.0.5"
  /\ now = 0
  /\ rateLimits["a1"].count = MAX_MESSAGES_PER_WINDOW + 1
  /\ rateLimits["U1"].count = MAX_MESSAGES_PER_WINDOW
  /\ rateLimits["10.0.0.5"].count = 1

-----------------------------------------------------------------------------
(* Valid and invalid messages of agents and users through the default      *)
(* chain                                                                   *)

MaxOrderPublishes == 3

OrderMessages == {Str(<<"h", "i">>), Str(<<>>), [str |-> FALSE, text |-> <<>>, fill |-> 0]}

OrderContexts ==
  {[EmptyContext EXCEPT !.user = "U1"],
   [EmptyContext EXCEPT !.from = "a1", !.type = "agent", !.secret = "s1", !.ip = "127.0.0.1"],
   [EmptyContext EXCEPT !.from = "a1", !.type = "agent", !.secret = "bad", !.ip = "127.0.0.1"],
   [EmptyContext EXCEPT !.from = "a1", !.type = "agent", !.secret = "s1", !.ip = "10.0.0.5"],
   [EmptyContext EXCEPT !.from = "ghost", !.type = "agent"]}

InitOrder ==
  /\ BusConstructed(DefaultChain)
  /\ EnvLoaded(LoadedAgents)
  /\ RouterConstructed
  /\ CommConstructed
  /\ SchedulerConstructed(TRUE)
  /\ RegistryConstructed(NoFile)
  /\ AppStarted

PublishAny ==
  /\ published < MaxOrderPublishes
  /\ \E message \in OrderMessages, context \in OrderContexts :
        publish("message:incoming", message, context)
  /\ UNCHANGED envVars
  /\ UNCHANGED outsideBus

NextOrder ==
  \/ PublishAny
  \/ runMiddleware
  \/ returnMiddleware
  \/ emit

SpecOrder == InitOrder /\ [][NextOrder]_vars

\* the middleware of the given kind was invoked in this publish
Invoked(kind) == Passed(kind) \/ Rejected(kind)

\* C34: with the default middleware order (validation, logging, command
\* detection, access control, rate limiting), a message rejected by validation
\* or by access control consumes no rate-limit quota: the rate-limit counter
\* of its identity is unchanged by that publish.  The counters change only in
\* an invocation of the rate limiter, and a publish that validation or access
\* control rejects has none.
C34_RejectedConsumesNoQuota ==
  /\ []((Rejected("validation") \/ Rejected("accessControl")) => ~Invoked("rateLimit"))
  /\ [][rateLimits' # rateLimits =>
          /\ pc = "chain" /\ topState = "run"
          /\ middleware[stack[Len(stack)]].kind = "rateLimit"
          /\ \A j \in DOMAIN trace : trace[j][1] # "throw"]_vars

C34_Witness ==
  /\ Rejected("accessControl")
  /\ pubCtx.from = "a1"
  /\ published = 2
  /\ rateLimits = [key \in {"a1"} |-> [count |-> 1, resetAt |-> RATE_LIMIT_WINDOW]]

-----------------------------------------------------------------------------
(* One user's messages routed to the default agent within one rate-limit   *)
(* window, starting from the counter that RoutedBefore messages of U1,     *)
(* routed and answered at instant 0, leave (two publishes each); routes    *)
(* counts the messages routed since                                        *)

RoutedBefore == 14

MaxQuotaRoutes == 2

InitQuota ==
  /\ BusConstructed(DefaultChain)
  /\ rateLimits = [key \in {"U1"} |->
                     [count |-> 2 * RoutedBefore, resetAt |-> RATE_LIMIT_WINDOW]]
  /\ rateLog = [key \in {"U1"} |-> [first |-> 0, n |-> 2 * RoutedBefore, after |-> 0]]
  /\ span = NoSpan
  /\ inSpan = EmptyMap
  /\ agents = EmptyMap
  /\ now = 0
  /\ RouterConstructed
  /\ CommConstructed
  /\ SchedulerConstructed(TRUE)
  /\ RegistryConstructed(NoFile)
  /\ AppStarted

RegisterClaude == registerAgent("claude")

SetDefaultClaude == setDefaultAgent("claude")

RouteUserMessage ==
  /\ routes < MaxQuotaRoutes
  /\ routeMessage("slack", Str(<<"h", "i">>), [EmptyContext EXCEPT !.user = "U1"])

NextQuota ==
  \/ RegisterPlatform
  \/ RegisterClaude
  \/ SetDefaultClaude
  \/ RouteUserMessage
  \/ runMiddleware
  \/ returnMiddleware
  \/ emit
  \/ afterIncoming
  \/ agentSettles
  \/ afterOutgoing
  \/ deliverySettles

SpecQuota == InitQuota /\ [][NextQuota]_vars

\* C35: only a user's inbound messages count toward the rate limit: a user
\* whose messages are all routed through routeMessage and who sends at most 30
\* messages within one rate-limit window is never rejected with a rate-limit
\* error (the message:outgoing publish of each agent reply does not consume
\* that user's quota).
C35_InboundOnly ==
  (RoutedBefore + routes <= MAX_MESSAGES_PER_WINDOW /\ now <= RATE_LIMIT_WINDOW) =>
     /\ thrown # "Rate limit exceeded. Please slow down."
     /\ rError # "Rate limit exceeded. Please slow down."

-----------------------------------------------------------------------------
(* A client that does not know a1's secret 's1' posting to                 *)
(* /agents/register, /notify and /reply under a1's name                    *)

MaxEndpointRequests == 3

\* the secrets such a client can present
ClientSecrets == {Undefined, "s2"}

EndpointFile ==
  writeFile(NoFile,
            serialize([name \in {"a1"} |->
                         agentConfig([callbackUrl |-> "http://localhost:4000/callback",
                                      description |-> Undefined,
                                      secret |-> "s1",
                                      allowedIPs |-> {}], 0)]))

InitEndpoints ==
  /\ BusConstructed(DefaultChain)
  /\ EnvLoaded(EmptyMap)
  /\ RouterConstructed
  /\ CommConstructed
  /\ SchedulerConstructed(TRUE)
  /\ RegistryConstructed(EndpointFile)
  /\ AppStarted

ClientRegisters ==
  /\ http.n + endpoint.n < MaxEndpointRequests
  /\ \E callbackUrl \in {"http://localhost:6000/callback", Undefined},
        secret \in ClientSecrets :
          agentsRegister("a1", callbackUrl, secret, {})

ClientNotifies ==
  /\ http.n + endpoint.n < MaxEndpointRequests
  /\ \E secret \in ClientSecrets :
        notify("a1", Str(<<"h", "i">>), "10.0.0.5", secret)

ClientReplies ==
  /\ http.n + endpoint.n < MaxEndpointRequests
  /\ reply("a1", "hi")

NextEndpoints ==
  \/ initialize
  \/ ClientRegisters
  \/ ClientNotifies
  \/ ClientReplies
  \/ WriteCompletes
  \/ WriteFails
  \/ agentsRegisterAfterSave
  \/ notifyAfterUpdate
  \/ runMiddleware
  \/ returnMiddleware
  \/ emit
  \/ notifyAfterPublish
  \/ postSucceeds
  \/ postFails
  \/ delayElapses
  \/ replyAfterSend

SpecEndpoints == InitEndpoints /\ [][NextEndpoints]_vars

\* C36: once an agent name is registered with a secret, no sequence of POST
\* /agents/register, POST /notify and POST /reply requests made by a client
\* that does not present that secret leads to a /notify under that agent's
\* name being accepted.
C36_NoImpersonation ==
  /\ http.from = "a1" => (http.status # 200 /\ http.pc \notin {"saving", "publishing"})
  /\ pubEvent = "agent:notify" => pubCtx.from # "a1"

\* C37: every IP string that literally appears in an agent's non-empty
\* allowedIPs is accepted by isIPAllowed for that agent, including the IPv6
\* loopback '::1' when that is the only listed form.
C37_ListedIsAllowed ==
  (/\ checked.fn = "isIPAllowed"
   /\ hasAgent(checked.name)
   /\ checked.arg \in agents[checked.name].allowedIPs) => checked.result

\* the latest call to have reached its write failed in it, no call overlapped
\* another, and no write is under way
LastSaveThrew ==
  /\ loaded
  /\ serial
  /\ Writing = {}
  /\ regCalls # <<>>
  /\ regCalls[Len(regCalls)].status = "threw"

\* C38: if the persistence write fails during register, unregister,
\* updateLastSeen or setActive, the call fails and the in-memory record set
\* is exactly what it was before the call: no change that was not persisted
\* is visible to later getAgent/hasAgent/verifySecret/isIPAllowed reads.  The
\* records before a call that overlapped no other are those of the file.
C38_FailedWriteRollsBack ==
  LastSaveThrew =>
     /\ regError = "write failed"
     /\ serialize(agents) = store.data

=============================================================================
